---------------------------- MODULE Spec2Model ----------------------------
(***************************************************************************)
(* A model of bsa: the query engine (bsa/bind.py), the zone database       *)
(* builder (bsa/named.py, BindConfig.parse_zones), the include machine     *)
(* (bsa/include_handler.py), the zone parser and its record builder        *)
(* (bsa/zone.py), the suite runner (bsa/__init__.py, run_modules) and the  *)
(* interpretation of named.conf (bsa/named.py, update_from_section).       *)
(*                                                                         *)
(* Strings the code inspects character by character (labels, origins,      *)
(* glob patterns) are sequences of one-character strings, so that split,   *)
(* endswith, replace and fnmatch are computed as the code computes them.   *)
(***************************************************************************)
EXTENDS Integers, Sequences, FiniteSets, TLC

VARIABLES
    zones,      \* FakeBind.zones: sequence of [records, configs] entries
    cache,      \* FakeBind.cache: labelized key -> list of record positions
    q,          \* the arguments of the last query() call, or NoQuery
    result,     \* the list the last query() call returned (record positions)
    raised,     \* TRUE iff the last query() call raised an exception
    \* BindConfig.parse_zones
    tree,         \* the config tree: [parent, zones] per node, node 1 the root
    parser_cache, \* BindConfig.parser_cache: "none" or a directory
    disk,         \* the files of the parser cache directory, by path
    pzConfigs,    \* all_zones: the list configs
    pzConfig,     \* all_zones: the node config being yielded from, or 0
    pzZones,      \* all_zones: the zones of config not yet yielded
    pzCache,      \* parse_zones: the dict cache, key -> [ast, configs]
    pzCalls,      \* the number of parse_zone calls made, per key
    pzState,      \* "running", "done" (returned) or "raised"
    pzResult,     \* the list parse_zones returned
    \* IncludeHandler
    fs,           \* the files on disk: path -> list of include directives
    stack,        \* DefaultStack.stack
    result_cache, \* IncludeHandler.result_cache: resolved path -> AST
    frames,       \* the active _include calls: [path, pc, serial], innermost last
    parses,       \* the number of parser.parse_file calls, per resolved path
    opens,        \* the number of times file_reader opened a path
    icalls,       \* the number of include calls made from outside a parse
    ifailed,      \* "none", or the exception some include call ended with
    iret,         \* the last return of an include call, or NoReturn
    \* build_path
    bpArgs,       \* the arguments of a build_path call and the files on disk
    bpResult,     \* the path the call returned, or NoPath before the call
    \* ZoneParser and its RecordBuilder
    zpText,       \* the characters given to parse_generator
    zpOrigin,     \* the origin given to ZoneParser.__init__
    zpLines,      \* the lines generate_lines yields for zpText
    zpPos,        \* the number of lines parse_generator has taken
    rb,           \* RecordBuilder: [previous_label, ttl, stack]
    rbCalls,      \* the calls made on a RecordBuilder driven by its methods
    tk,           \* zone_tokenizer: its locals and the tokens yielded so far
    zpResult,     \* parse_generator: the list result
    zpState,      \* "idle", "parsing", "done" (returned) or the exception raised
    \* run_modules
    rmModules,    \* the argument modules: a list of suite names
    rmFindings,   \* what each suite finds in the database to report
    rmBind,       \* "idle", "unset", "ok", or "fails": FakeBind(zones) raises
    rmResult,     \* run_modules: the list result
    rmMessages,   \* the messages the reporters printed: [module, level]
    rmExit,       \* the value run_modules returned, or NoExit
    \* BindConfig.update_from_section
    cfNodes,      \* the config objects: node 1 the root, the others views
    cfQueue,      \* update_from_section: the list queue of [config, section]
    cfConfig,     \* the node whose section is being interpreted, or 0
    cfSection,    \* the statements of that section not yet interpreted
    cfWarnings,   \* the idents log.warning was called for
    cfState       \* "idle", "running", "done" (returned) or the exception raised

qvars == <<zones, cache, q, result, raised>>
zvars == <<tree, parser_cache, disk, pzConfigs, pzConfig, pzZones, pzCache,
           pzCalls, pzState, pzResult>>
ivars == <<fs, stack, result_cache, frames, parses, opens, icalls, ifailed,
           iret>>
bvars == <<bpArgs, bpResult>>
pvars == <<zpText, zpOrigin, zpLines, zpPos, rb, rbCalls, tk, zpResult,
          zpState>>
mvars == <<rmModules, rmFindings, rmBind, rmResult, rmMessages, rmExit>>
cvars == <<cfNodes, cfQueue, cfConfig, cfSection, cfWarnings, cfState>>
xvars == <<bvars, pvars, mvars, cvars>>
vars == <<qvars, zvars, ivars, xvars>>

(***************************************************************************)
(* Bounds of the model.                                                    *)
(***************************************************************************)
\* The number of records spread over the zone database entries.
MaxRecs == 2

(***************************************************************************)
(* Strings as character sequences.                                         *)
(***************************************************************************)
DOT == "."
STAR == "*"

\* str.endswith(".")
EndsWithDot(s) == Len(s) > 0 /\ s[Len(s)] = DOT

\* c in s
HasChar(s, c) == \E i \in 1..Len(s) : s[i] = c

\* The index of the first c in s at or after position i, or 0.
RECURSIVE IndexFrom(_, _, _)
IndexFrom(s, c, i) ==
    IF i > Len(s) THEN 0
    ELSE IF s[i] = c THEN i
    ELSE IndexFrom(s, c, i + 1)

\* s.split("."): "a.x." gives <<"a", "x", "">>, "" gives <<"">>.
RECURSIVE SplitDot(_)
SplitDot(s) ==
    LET i == IndexFrom(s, DOT, 1)
    IN  IF i = 0 THEN <<s>>
        ELSE <<SubSeq(s, 1, i - 1)>> \o SplitDot(SubSeq(s, i + 1, Len(s)))

\* s.replace("@", origin)
RECURSIVE ReplaceAt(_, _)
ReplaceAt(s, origin) ==
    IF s = <<>> THEN <<>>
    ELSE (IF Head(s) = "@" THEN origin ELSE <<Head(s)>>)
             \o ReplaceAt(Tail(s), origin)

(***************************************************************************)
(* bsa/utils.py                                                            *)
(***************************************************************************)
normalize_label(label) ==
    IF ~EndsWithDot(label) THEN Append(label, DOT) ELSE label

\* join_origin without the dot appended to a bare label under the root
join_origin_bare_root(label, origin) ==
    LET o == IF ~EndsWithDot(origin) THEN Append(origin, DOT) ELSE origin
        l == ReplaceAt(label, o)
    IN  IF ~EndsWithDot(l)
        THEN IF o = <<DOT>> THEN l
             ELSE l \o <<DOT>> \o o
        ELSE l

\* join_origin with the owner "." read like "@", as the origin itself
join_origin_root_is_origin(label, origin) ==
    LET o == IF ~EndsWithDot(origin) THEN Append(origin, DOT) ELSE origin
        l == IF label = <<DOT>> THEN o ELSE ReplaceAt(label, o)
    IN  IF ~EndsWithDot(l)
        THEN IF o = <<DOT>> THEN Append(l, DOT)
             ELSE l \o <<DOT>> \o o
        ELSE l

join_origin(label, origin) ==
    LET o == IF ~EndsWithDot(origin) THEN Append(origin, DOT) ELSE origin
        l == ReplaceAt(label, o)
    IN  IF ~EndsWithDot(l)
        THEN IF o = <<DOT>> THEN Append(l, DOT)
             ELSE l \o <<DOT>> \o o
        ELSE l

(***************************************************************************)
(* bsa/zone.py: the record model.  A record is                             *)
(*   [rtype, label, ttl, class_type, origin, key]                          *)
(* rtype stands for both type(rr) and rr.record_type, which name the same  *)
(* variant; key is the variant's __key__() tuple.                          *)
(***************************************************************************)
DEFAULT_TTL == 86400

resolved_label(rr) == join_origin(rr.label, rr.origin)

full_key(rr) == <<rr.label, rr.ttl, rr.class_type, rr.origin, rr.key>>

\* Record.__eq__ (and __hash__, which hashes the same tuple).
RecordEq(a, b) == full_key(a) = full_key(b)


(***************************************************************************)
(* Argument values of query(): None, a string, a list, a record class.     *)
(***************************************************************************)
NoneArg == [kind |-> "none", v |-> <<>>]
StrArg(s) == [kind |-> "str", v |-> s]
ClassArg(t) == [kind |-> "class", v |-> t]
ListArg(l) == [kind |-> "list", v |-> l]

\* x in l, for a Python list l
InList(x, l) == \E i \in 1..Len(l) : l[i] = x

(***************************************************************************)
(* bsa/bind.py: record_filter.  item is the record of a (rr, configs)      *)
(* pair.                                                                   *)
(***************************************************************************)
\* rr.record_type in self.record_type or type(rr) in self.record_type
filter_by_list(record_type, rr) ==
    \/ InList(StrArg(rr.rtype), record_type.v)
    \/ InList(ClassArg(rr.rtype), record_type.v)

\* rr.record_type == self.record_type: a type name equals no class object
filter_by_name(record_type, rr) == StrArg(rr.rtype) = record_type

\* type(rr) == self.record_type
filter_by_type(record_type, rr) == ClassArg(rr.rtype) = record_type

\* isinstance(record_type, Record): true of a record object only, of no
\* string, list or class.
IsRecordInstance(record_type) == record_type.kind = "instance"

record_filter(record_type, rr) ==
    IF record_type = NoneArg THEN TRUE
    ELSE IF record_type.kind = "list" THEN filter_by_list(record_type, rr)
    ELSE IF IsRecordInstance(record_type) THEN filter_by_type(record_type, rr)
    ELSE filter_by_name(record_type, rr)

(***************************************************************************)
(* bsa/bind.py: config_filter.  A config node is the root, a BindConfig,   *)
(* which has no name attribute, or a BindView with a name.  A call gives   *)
(* [ok, v]: ok is FALSE when it raises, v is the value it returns.         *)
(***************************************************************************)
RootConfig == [type |-> "BindConfig", name |-> ""]
View(n) == [type |-> "BindView", name |-> n]

Returns(x) == [ok |-> TRUE, v |-> x]
Raises == [ok |-> FALSE, v |-> FALSE]

\* config.name: AttributeError on the root
ConfigName(config) ==
    IF config.type = "BindView" THEN Returns(config.name) ELSE Raises

filter_view_by_list(view_name, config) ==
    LET n == ConfigName(config)
    IN  IF n.ok THEN Returns(InList(n.v, view_name.v)) ELSE Raises

filter_view_by_name(view_name, config) ==
    LET n == ConfigName(config)
    IN  IF n.ok THEN Returns(StrArg(n.v) = view_name) ELSE Raises

\* The root test as isinstance(config, BindConfig), which a BindView passes.
config_filter_isinstance(view_name, config) ==
    IF view_name = NoneArg THEN Returns(TRUE)
    ELSE IF config.type \in {"BindConfig", "BindView"} THEN Returns(TRUE)
    ELSE IF view_name.kind = "list"
         THEN filter_view_by_list(view_name, config)
         ELSE filter_view_by_name(view_name, config)

config_filter(view_name, config) ==
    IF view_name = NoneArg THEN Returns(TRUE)
    ELSE IF config.type = "BindConfig" THEN Returns(TRUE)
    ELSE IF view_name.kind = "list"
         THEN filter_view_by_list(view_name, config)
         ELSE filter_view_by_name(view_name, config)

\* any(filter(cfg_filter, configs)): filter calls cfg_filter on every
\* config; a config object is truthy.
any_config_all(view_name, configs) ==
    IF \E i \in 1..Len(configs) : ~config_filter(view_name, configs[i]).ok
    THEN Raises
    ELSE Returns(\A i \in 1..Len(configs) :
                     config_filter(view_name, configs[i]).v)

any_config(view_name, configs) ==
    IF \E i \in 1..Len(configs) : ~config_filter(view_name, configs[i]).ok
    THEN Raises
    ELSE Returns(\E i \in 1..Len(configs) :
                     config_filter(view_name, configs[i]).v)

(***************************************************************************)
(* bsa/bind.py: FakeBind.  A record object is named by its position        *)
(* <<zone entry, index>> in zones; the lists the code builds hold          *)
(* references to those objects.                                            *)
(***************************************************************************)
ANY == <<"ANY">>

RecAt(zs, pos) == zs[pos[1]].records[pos[2]]
ConfigsAt(zs, pos) == zs[pos[1]].configs

\* The records of all entries in iteration order:
\* for (zone, configs) in zones: for rr in zone
RECURSIVE AllPositionsFrom(_, _)
AllPositionsFrom(zs, i) ==
    IF i > Len(zs) THEN <<>>
    ELSE [j \in 1..Len(zs[i].records) |-> <<i, j>>]
             \o AllPositionsFrom(zs, i + 1)

AllPositions(zs) == AllPositionsFrom(zs, 1)

map_label(label) ==
    LET parts == SplitDot(normalize_label(label))
    IN  [i \in 1..Len(parts) |->
            IF parts[i] = <<STAR>> THEN ANY ELSE parts[i]]

\* build_keys with a wildcard key that spans the first two labels
build_keys_two_levels(label) ==
    LET k == map_label(label)
    IN  << k, <<ANY>> \o Tail(Tail(k)) >>

build_keys(label) ==
    LET k == map_label(label)
    IN  << k, <<ANY>> \o Tail(k) >>

\* values = cache.setdefault(tuple(k), []); values.append((rr, configs))
cache_append_front(c, k, pos) ==
    IF k \in DOMAIN c THEN [c EXCEPT ![k] = <<pos>> \o @]
    ELSE c @@ (k :> <<pos>>)

cache_append(c, k, pos) ==
    IF k \in DOMAIN c THEN [c EXCEPT ![k] = Append(@, pos)]
    ELSE c @@ (k :> <<pos>>)

RECURSIVE build_cache_loop(_, _, _, _)
build_cache_loop(zs, all, i, c) ==
    IF i > Len(all) THEN c
    ELSE build_cache_loop(zs, all, i + 1,
             cache_append(c, map_label(resolved_label(RecAt(zs, all[i]))),
                          all[i]))

build_cache(zs) == build_cache_loop(zs, AllPositions(zs), 1, <<>>)

\* self.cache.get(key, [])
cache_get_index(c, key) ==
    IF key \in DOMAIN c THEN Returns(c[key]) ELSE Raises

cache_get(c, key) ==
    IF key \in DOMAIN c THEN Returns(c[key]) ELSE Returns(<<>>)

(***************************************************************************)
(* fnmatch.fnmatch(name, pat) of the Python library, as fnmatch.translate  *)
(* builds the pattern: * is any string, ? any character, [seq] a character *)
(* of seq ([!seq] none of seq), a [ that no ] closes is literal, and the   *)
(* whole name must match.  Ranges (a-z) are not modelled: no label of the  *)
(* model holds a "-".                                                      *)
(***************************************************************************)
RECURSIVE SkipToBracket(_, _)
SkipToBracket(pat, j) ==
    IF j <= Len(pat) /\ pat[j] # "]" THEN SkipToBracket(pat, j + 1) ELSE j

\* The index of the ] that closes the [ at index j of pat, or 0.
ClassEnd(pat, j) ==
    LET j1 == IF j + 1 <= Len(pat) /\ pat[j + 1] = "!" THEN j + 2 ELSE j + 1
        j2 == IF j1 <= Len(pat) /\ pat[j1] = "]" THEN j1 + 1 ELSE j1
        j3 == SkipToBracket(pat, j2)
    IN  IF j3 > Len(pat) THEN 0 ELSE j3

InClass(c, stuff) ==
    IF stuff[1] = "!"
    THEN ~\E k \in 2..Len(stuff) : stuff[k] = c
    ELSE \E k \in 1..Len(stuff) : stuff[k] = c

RECURSIVE GlobMatch(_, _, _, _)
GlobMatch(name, i, pat, j) ==
    IF j > Len(pat) THEN i > Len(name)
    ELSE IF pat[j] = STAR
    THEN \/ GlobMatch(name, i, pat, j + 1)
         \/ i <= Len(name) /\ GlobMatch(name, i + 1, pat, j)
    ELSE IF pat[j] = "?"
    THEN i <= Len(name) /\ GlobMatch(name, i + 1, pat, j + 1)
    ELSE IF pat[j] = "[" /\ ClassEnd(pat, j) # 0
    THEN /\ i <= Len(name)
         /\ InClass(name[i], SubSeq(pat, j + 1, ClassEnd(pat, j) - 1))
         /\ GlobMatch(name, i + 1, pat, ClassEnd(pat, j) + 1)
    ELSE /\ i <= Len(name)
         /\ name[i] = pat[j]
         /\ GlobMatch(name, i + 1, pat, j + 1)

\* A plain comparison in place of the glob match.
fnmatch_exact(name, pat) == name = pat

fnmatch(name, pat) == GlobMatch(name, 1, pat, 1)

\* The pairs of a bucket or of a scan that the two filters let through, in
\* order; the call raises when a filter raises.
Passing(zs, items, record, view) ==
    LET rec_ok(pos) == record_filter(record, RecAt(zs, pos))
        res == SelectSeq(items, rec_ok)
        cfg(pos) == any_config(view, ConfigsAt(zs, pos))
        cfg_ok(pos) == cfg(pos).v
    IN  IF \E k \in 1..Len(res) : ~cfg(res[k]).ok
        THEN Raises
        ELSE Returns(SelectSeq(res, cfg_ok))

wildcard_records(zs, name) ==
    LET matches(pos) == fnmatch(resolved_label(RecAt(zs, pos)), name)
    IN  SelectSeq(AllPositions(zs), matches)

wildcard_iquery(zs, label, record, view) ==
    Passing(zs, wildcard_records(zs, normalize_label(label)), record, view)

\* for direct, key in self.build_keys(label): ... if found_any: break
RECURSIVE regular_loop_all(_, _, _, _, _, _)
regular_loop_all(zs, c, keys, i, record, view) ==
    IF i > Len(keys) THEN Returns(<<>>)
    ELSE LET got == cache_get(c, keys[i])
             hits == IF got.ok THEN Passing(zs, got.v, record, view)
                     ELSE Raises
             rest == regular_loop_all(zs, c, keys, i + 1, record, view)
         IN  IF ~hits.ok \/ ~rest.ok THEN Raises
             ELSE Returns(hits.v \o rest.v)

RECURSIVE regular_loop(_, _, _, _, _, _)
regular_loop(zs, c, keys, i, record, view) ==
    IF i > Len(keys) THEN Returns(<<>>)
    ELSE LET got == cache_get(c, keys[i])
             hits == IF got.ok THEN Passing(zs, got.v, record, view)
                     ELSE Raises
         IN  IF ~hits.ok THEN Raises
             ELSE IF hits.v # <<>> THEN hits
             ELSE regular_loop(zs, c, keys, i + 1, record, view)

regular_iquery(zs, c, label, record, view) ==
    regular_loop(zs, c, build_keys(label), 1, record, view)

\* if r in unique: continue; yield r; unique.add(r).  unique holds the
\* records yielded so far; membership is decided by __hash__ and __eq__.
\* r in unique, by object identity instead of __eq__
InUnique_identity(zs, out, r) == \E k \in 1..Len(out) : out[k] = r

\* r in unique
InUnique(zs, out, r) ==
    \E k \in 1..Len(out) : RecordEq(RecAt(zs, out[k]), RecAt(zs, r))

RECURSIVE unique_loop(_, _, _, _)
unique_loop(zs, gen, i, out) ==
    IF i > Len(gen) THEN out
    ELSE IF InUnique(zs, out, gen[i])
    THEN unique_loop(zs, gen, i + 1, out)
    ELSE unique_loop(zs, gen, i + 1, Append(out, gen[i]))

unqiue_generator(zs, gen) == unique_loop(zs, gen, 1, <<>>)

iquery(zs, c, label, record, view, unique) ==
    LET gen == IF HasChar(label, STAR)
               THEN wildcard_iquery(zs, label, record, view)
               ELSE regular_iquery(zs, c, label, record, view)
    IN  IF ~gen.ok THEN Raises
        ELSE IF unique THEN Returns(unqiue_generator(zs, gen.v))
        ELSE gen

\* list(self.iquery(label, **kw))
query(zs, c, label, record, view, unique) ==
    iquery(zs, c, label, record, view, unique)

(***************************************************************************)
(* The query engine as a state machine: a FakeBind built over one of the   *)
(* databases below, then any sequence of query() calls.                    *)
(***************************************************************************)
L_a == <<"a">>
L_star == <<"*">>
L_abr == <<"a", ".", "[", "b", "]">>
O_x == <<"x", ".">>
O_root == <<".">>
Addr1 == <<"1", ".", "1", ".", "1", ".", "1">>
T_t == <<"t">>

RecA == [rtype |-> "A", label |-> L_a, ttl |-> DEFAULT_TTL,
         class_type |-> "IN", origin |-> O_x, key |-> <<Addr1>>]
RecCname == [rtype |-> "CNAME", label |-> L_a, ttl |-> DEFAULT_TTL,
             class_type |-> "IN", origin |-> O_x, key |-> <<T_t>>]
RecStar == [rtype |-> "A", label |-> L_star, ttl |-> DEFAULT_TTL,
            class_type |-> "IN", origin |-> O_x, key |-> <<Addr1>>]
RecBracket == [rtype |-> "A", label |-> L_abr, ttl |-> DEFAULT_TTL,
               class_type |-> "IN", origin |-> O_root, key |-> <<Addr1>>]

\* The records a zone may hold: a.x. (A and CNAME), *.x. and a.[b].
Pool == {RecA, RecCname, RecStar, RecBracket}

\* The config lists of the three zone database entries: a zone file two
\* views share, one only view w declares, one the root config declares.
ZoneConfigs == << <<View("w"), View("v")>>, <<View("w")>>, <<RootConfig>> >>

RecLists == UNION {[1..n -> Pool] : n \in 0..MaxRecs}

\* Records under x. with a * at either end of a two-label owner: *.b.x.
\* and a.*.x.
RecStarB == [rtype |-> "A", label |-> <<"*", ".", "b">>, ttl |-> DEFAULT_TTL,
             class_type |-> "IN", origin |-> O_x, key |-> <<Addr1>>]
RecMid == [rtype |-> "A", label |-> <<"a", ".", "*">>, ttl |-> DEFAULT_TTL,
           class_type |-> "IN", origin |-> O_x, key |-> <<Addr1>>]
DeepPool == {RecStar, RecStarB, RecMid}

\* One zone of the shared zone file holding records of DeepPool.
DeepDatabases ==
    { [i \in 1..3 |->
          [records |-> IF i = 1 THEN rs ELSE <<>>,
           configs |-> ZoneConfigs[i]]] :
        rs \in UNION {[1..n -> DeepPool] : n \in 1..MaxRecs} }

\* Records of other variants with the label, class, origin and target of
\* RecCname, and RecCname with another ttl.
RecNs == [RecCname EXCEPT !.rtype = "NS"]
RecCnameTtl == [RecCname EXCEPT !.ttl = 7]
VariantPool == {RecCname, RecNs, RecCnameTtl}

\* One zone of the shared zone file holding records of VariantPool.
VariantDatabases ==
    { [i \in 1..3 |->
          [records |-> IF i = 1 THEN rs ELSE <<>>,
           configs |-> ZoneConfigs[i]]] :
        rs \in UNION {[1..n -> VariantPool] : n \in 1..MaxRecs} }

Databases ==
    { [i \in 1..3 |->
          [records |-> IF i = 1 THEN SubSeq(rs, 1, a)
                       ELSE IF i = 2 THEN SubSeq(rs, a + 1, b)
                       ELSE SubSeq(rs, b + 1, Len(rs)),
           configs |-> ZoneConfigs[i]]] :
        <<rs, a, b>> \in
            {t \in RecLists \X (0..MaxRecs) \X (0..MaxRecs) :
                t[2] <= t[3] /\ t[3] <= Len(t[1])} }

QueryLabels == {<<"a", ".", "x">>, <<"*", ".", "x">>, L_abr, <<"a", ".", "b", ".", "x">>}
RecordArgs == {NoneArg, StrArg("A"), ClassArg("A"),
               ListArg(<<ClassArg("CNAME")>>)}
ViewArgs == {NoneArg, StrArg("v"), ListArg(<<"w">>)}

NoQuery == [label |-> <<>>, record |-> NoneArg, view |-> NoneArg,
            unique |-> FALSE, called |-> FALSE]

\* No parse_zones call is under way.
ZonesIdle ==
    /\ tree = [parent |-> <<0>>, zones |-> << <<>> >>]
    /\ parser_cache = "none"
    /\ disk = <<>>
    /\ pzConfigs = <<>>
    /\ pzConfig = 0
    /\ pzZones = <<>>
    /\ pzCache = <<>>
    /\ pzCalls = <<>>
    /\ pzState = "done"
    /\ pzResult = <<>>

NoReturn == [path |-> <<>>, ast |-> <<>>, hit |-> FALSE]

IncludeIdle ==
    /\ fs = <<>>
    /\ stack = <<>>
    /\ result_cache = <<>>
    /\ frames = <<>>
    /\ parses = <<>>
    /\ opens = <<>>
    /\ icalls = 0
    /\ ifailed = "none"
    /\ iret = NoReturn

NoPath == <<"None">>

PathIdle ==
    /\ bpArgs = <<>>
    /\ bpResult = NoPath

NoBuilder == [previous_label |-> <<"None">>, ttl |-> 0, stack |-> <<>>]
\* No zone_tokenizer generator is being stepped.
NoTokenizer ==
    [collected |-> <<>>, quoted |-> FALSE, multiline |-> FALSE,
     comment |-> FALSE, escape |-> FALSE, first |-> FALSE, out |-> <<>>]

ParserIdle ==
    /\ zpText = <<>>
    /\ zpOrigin = <<"None">>
    /\ zpLines = <<>>
    /\ zpPos = 0
    /\ rb = NoBuilder
    /\ rbCalls = <<>>
    /\ tk = NoTokenizer
    /\ zpResult = <<>>
    /\ zpState = "idle"

NoExit == <<>>

ModulesIdle ==
    /\ rmModules = <<>>
    /\ rmFindings = <<>>
    /\ rmBind = "idle"
    /\ rmResult = <<>>
    /\ rmMessages = <<>>
    /\ rmExit = NoExit

ConfigIdle ==
    /\ cfNodes = <<>>
    /\ cfQueue = <<>>
    /\ cfConfig = 0
    /\ cfSection = <<>>
    /\ cfWarnings = <<>>
    /\ cfState = "idle"

ExtraIdle == PathIdle /\ ParserIdle /\ ModulesIdle /\ ConfigIdle

Init ==
    /\ zones \in Databases \cup DeepDatabases \cup VariantDatabases
    /\ cache = build_cache(zones)
    /\ q = NoQuery
    /\ result = <<>>
    /\ raised = FALSE
    /\ ZonesIdle
    /\ IncludeIdle
    /\ ExtraIdle

\* db.query(label, record=record, view=view, unique=unique)
Query(label, record, view, unique) ==
    LET r == query(zones, cache, label, record, view, unique)
    IN  /\ ~q.called
        /\ q' = [label |-> label, record |-> record, view |-> view,
                 unique |-> unique, called |-> TRUE]
        /\ raised' = ~r.ok
        /\ result' = IF r.ok THEN r.v ELSE <<>>
        /\ UNCHANGED <<zones, cache>>
        /\ UNCHANGED <<zvars, ivars, xvars>>

\* The caller drops the list it got; the database is as it was.
Discard ==
    /\ q.called
    /\ q' = NoQuery
    /\ result' = <<>>
    /\ raised' = FALSE
    /\ UNCHANGED <<zones, cache>>
    /\ UNCHANGED <<zvars, ivars, xvars>>

Next ==
    \/ \E label \in QueryLabels, record \in RecordArgs, view \in ViewArgs,
          unique \in BOOLEAN :
           Query(label, record, view, unique)
    \/ Discard

Spec == Init /\ [][Next]_vars

(***************************************************************************)
(* Properties of the query engine.                                         *)
(***************************************************************************)
Regular == q.called /\ ~HasChar(q.label, STAR)

KeyOf(pos) == map_label(resolved_label(RecAt(zones, pos)))
ExactKey == build_keys(q.label)[1]
WildKey == build_keys(q.label)[2]

\* The records stored under key k, in the order of the database.
Stored(k) ==
    LET under(pos) == KeyOf(pos) = k
    IN  SelectSeq(AllPositions(zones), under)

RecordPasses(pos) == record_filter(q.record, RecAt(zones, pos))
ViewPasses(pos) == any_config(q.view, ConfigsAt(zones, pos)).v
PassesBoth(pos) == RecordPasses(pos) /\ ViewPasses(pos)

PassingExact == SelectSeq(Stored(ExactKey), PassesBoth)
PassingWild == SelectSeq(Stored(WildKey), PassesBoth)

\* C1: for a regular query with at least one record under the exact key
\* that passes both filters, the result is exactly those passing records
\* (their first occurrences under unique=True) and holds no record stored
\* under the wildcard key.
C1_ExactHitExcludesWildcard ==
    (Regular /\ PassingExact # <<>>) =>
        /\ ~q.unique => result = PassingExact
        /\ \A i \in 1..Len(result) :
              /\ InList(result[i], PassingExact)
              /\ KeyOf(result[i]) # WildKey

C1_Witness ==
    /\ Regular
    /\ ~q.unique
    /\ PassingExact # <<>>
    /\ PassingWild # <<>>
    /\ result = PassingExact

\* The elements of s at the indexes i for which Keep(i) holds, in order.
FirstOccurrences(s) ==
    LET F[i \in 0..Len(s)] ==
            IF i = 0 THEN <<>>
            ELSE IF \E k \in 1..(i - 1) :
                        RecordEq(RecAt(zones, s[k]), RecAt(zones, s[i]))
                 THEN F[i - 1]
                 ELSE Append(F[i - 1], s[i])
    IN  F[Len(s)]

PlainResult == query(zones, cache, q.label, q.record, q.view, FALSE).v

\* C2: a unique=True result holds no two records that compare equal, and it
\* is the unique=False result without the later occurrences of equal
\* records, in the same order.
C2_UniqueYieldsNoEqualPair ==
    (q.called /\ q.unique) =>
        /\ \A i, j \in 1..Len(result) :
              i < j => ~RecordEq(RecAt(zones, result[i]),
                                 RecAt(zones, result[j]))
        /\ result = FirstOccurrences(PlainResult)

C2_Witness ==
    /\ q.called
    /\ q.unique
    /\ Len(result) >= 1
    /\ Len(PlainResult) > Len(result)

PosLess(p1, p2) == p1[1] < p2[1] \/ (p1[1] = p2[1] /\ p1[2] < p2[2])

\* C3: the records of a result appear in the order of the database: zone
\* entries in the order given, records in their order inside an entry.
C3_ResultInIndexOrder ==
    q.called =>
        /\ \A i \in 1..Len(result) : InList(result[i], AllPositions(zones))
        /\ \A i, j \in 1..Len(result) :
              i < j => PosLess(result[i], result[j])

C3_Witness ==
    /\ Regular
    /\ Len(result) = 2
    /\ result[1][1] # result[2][1]
    /\ RecAt(zones, result[1]) # RecAt(zones, result[2])

\* The records a query looks at: the exact bucket, or the glob matches.
Candidates ==
    IF HasChar(q.label, STAR)
    THEN LET matches(pos) == fnmatch(resolved_label(RecAt(zones, pos)),
                                     normalize_label(q.label))
         IN  SelectSeq(AllPositions(zones), matches)
    ELSE Stored(ExactKey)

\* C4: with view = v, a single name, every yielded record has a config that
\* is the root or a view named v, and a record the root config references
\* (that the record filter accepts) is yielded whatever v is.
C4_ViewFilterByName ==
    (q.called /\ q.view.kind = "str") =>
        /\ \A i \in 1..Len(result) :
              \E k \in 1..Len(ConfigsAt(zones, result[i])) :
                  LET c == ConfigsAt(zones, result[i])[k]
                  IN  \/ c.type = "BindConfig"
                      \/ c.type = "BindView" /\ c.name = q.view.v
        /\ ~q.unique =>
              \A k \in 1..Len(Candidates) :
                  (/\ RecordPasses(Candidates[k])
                   /\ InList(RootConfig, ConfigsAt(zones, Candidates[k])))
                      => InList(Candidates[k], result)

C4_Witness ==
    /\ Regular
    /\ q.view = StrArg("v")
    /\ ~q.unique
    /\ \E k \in 1..Len(Candidates) :
          /\ RecordPasses(Candidates[k])
          /\ ConfigsAt(zones, Candidates[k]) = <<View("w")>>
          /\ ~InList(Candidates[k], result)
    /\ \E i \in 1..Len(result) :
          ConfigsAt(zones, result[i]) = <<RootConfig>>

\* C5: record = a record class yields the records of that variant that
\* record = None yields, the same as record = the variant's type name.
C5_ClassTagSelectsVariant ==
    (q.called /\ q.record.kind = "class") =>
        LET ofVariant(pos) == RecAt(zones, pos).rtype = q.record.v
            all == query(zones, cache, q.label, NoneArg, q.view, FALSE).v
            byName == query(zones, cache, q.label, StrArg(q.record.v),
                            q.view, q.unique).v
        IN  /\ ~q.unique => result = SelectSeq(all, ofVariant)
            /\ result = byName

NoIndexEntry == Stored(ExactKey) = <<>> /\ Stored(WildKey) = <<>>

\* C6 as stated: no query raises, and whatever the label, the result is
\* empty when neither key of the label has an index entry.
C6_EmptyWithoutIndexEntry ==
    q.called =>
        /\ ~raised
        /\ NoIndexEntry => result = <<>>

\* C6: no query raises, whatever the label and the arguments, and a regular
\* query returns the empty list when neither the exact key nor the wildcard
\* key of its label has an index entry.
C6_QueryNeverRaises ==
    q.called =>
        /\ ~raised
        /\ \A i \in 1..Len(result) : InList(result[i], AllPositions(zones))
        /\ (Regular /\ NoIndexEntry) => result = <<>>

C6_Witness ==
    /\ Regular
    /\ NoIndexEntry
    /\ AllPositions(zones) # <<>>
    /\ q.record # NoneArg
    /\ q.view # NoneArg
    /\ ~raised
    /\ result = <<>>

\* For a name y.x: the part x after the first dot, and the name *.x.
RestOf(label) == SubSeq(label, IndexFrom(label, DOT, 1) + 1, Len(label))
StarName(label) == <<STAR, DOT>> \o RestOf(label)

InWildcardResult(pos) ==
    InList(pos, wildcard_iquery(zones, StarName(q.label), q.record,
                                q.view).v)

\* C7 as stated: for any name y.x without *, what the direct query returns
\* the query of *.x with the same filters returns too.
C7_WildcardSupersetAnyName ==
    (Regular /\ HasChar(q.label, DOT)) =>
        \A i \in 1..Len(result) : InWildcardResult(result[i])

\* C7: for a name y.x without * whose x holds no "[", what the direct query
\* returns the query of *.x with the same filters returns too.
C7_WildcardSuperset ==
    (Regular /\ HasChar(q.label, DOT) /\ ~HasChar(RestOf(q.label), "[")) =>
        \A i \in 1..Len(result) : InWildcardResult(result[i])

C7_Witness ==
    /\ Regular
    /\ ~HasChar(RestOf(q.label), "[")
    /\ \E i \in 1..Len(result) : KeyOf(result[i]) = ExactKey
    /\ \A i \in 1..Len(result) : InWildcardResult(result[i])
    /\ Len(wildcard_iquery(zones, StarName(q.label), q.record, q.view).v)
           > Len(result)

(***************************************************************************)
(* bsa/named.py: BindConfig.parse_zones over a config tree.                *)
(*                                                                         *)
(* A tree is [parent, zones]: node 1 is the root BindConfig, the others    *)
(* are BindViews; parent[n] is the node whose views dict holds n, and      *)
(* zones[n] lists the values of n's zones dict (one zone per origin).      *)
(* A zone is [file, origin]; an AST is [file, origin, from].               *)
(***************************************************************************)
\* The number of views of the config tree.
MaxViews == 2

Zone(f, o) == [file |-> f, origin |-> o]

\* The values of one config's zones dict.
ZoneLists == { <<>>,
               <<Zone("f", "o")>>,
               <<Zone("g", "o"), Zone("f", "p")>>,
               <<Zone("f", "p"), Zone("f", "o")>>,
               <<Zone("bad", "o")>> }

Trees ==
    UNION { { [parent |-> [i \in 1..n |-> IF i = 1 THEN 0 ELSE par[i]],
               zones |-> zl] :
                par \in {f \in [1..n -> 0..n] : \A i \in 1..n : f[i] < i /\ (i > 1 => f[i] >= 1)},
                zl \in [1..n -> ZoneLists] } :
            n \in 1..(1 + MaxViews) }

Nodes(t) == 1..Len(t.zones)

\* config.views.values(), in the order of the dict
Views(t, n) ==
    LET isView(i) == t.parent[i] = n
    IN  SelectSeq([i \in 1..Len(t.zones) |-> i], isView)

KeyOfZone(zone) == <<zone.file, zone.origin>>

NoAst == [file |-> "", origin |-> "", from |-> "none"]

\* The modification time of every zone file.
ZoneFileMtime(file) == 2

\* parse_zone(zone.file, zone.origin, ...): the file "bad" does not parse.
ParseRaises(file) == file = "bad"
parse_zone(file, origin) == [file |-> file, origin |-> origin, from |-> "parse"]

\* hashlib.md5(zone.file + zone.origin), taken as injective on its input
get_cache_path(zone) == zone.file \o zone.origin

get_cached(pc, d, zone) ==
    IF pc = "none" THEN NoAst
    ELSE IF get_cache_path(zone) \notin DOMAIN d THEN NoAst
    ELSE IF ZoneFileMtime(zone.file) > d[get_cache_path(zone)].mtime
    THEN NoAst
    ELSE IF ~d[get_cache_path(zone)].readable THEN NoAst
    ELSE d[get_cache_path(zone)].ast

put_cache(pc, d, zone, ast) ==
    IF pc = "none" THEN d
    ELSE LET file == [mtime |-> 3, readable |-> TRUE, ast |-> ast]
         IN  IF get_cache_path(zone) \in DOMAIN d
             THEN [d EXCEPT ![get_cache_path(zone)] = file]
             ELSE d @@ (get_cache_path(zone) :> file)

\* The parser cache directory before the run: empty, or holding a file for
\* zone f/o that is newer than, as old as or older than the zone file, or
\* one that pickle cannot load.
DiskOf(mtime) ==
    "fo" :> [mtime |-> mtime, readable |-> TRUE,
             ast |-> [file |-> "f", origin |-> "o", from |-> "disk"]]

DiskBroken == "fo" :> [mtime |-> 3, readable |-> FALSE, ast |-> NoAst]

CacheSetups == { <<"none", <<>> >>, <<"dir", <<>> >>,
                 <<"dir", DiskOf(3)>>, <<"dir", DiskOf(2)>>,
                 <<"dir", DiskOf(1)>>, <<"dir", DiskBroken>> }

AllKeys == {"f", "g", "bad"} \X {"o", "p"}

\* ast, configs = value; configs.append(config); cache[key] = (ast, configs)
cache_hit_replace(value, config) ==
    [ast |-> value.ast, configs |-> <<config>>]

cache_hit(value, config) ==
    [ast |-> value.ast, configs |-> Append(value.configs, config)]

QueryIdle ==
    /\ zones = <<>>
    /\ cache = <<>>
    /\ q = NoQuery
    /\ result = <<>>
    /\ raised = FALSE

\* config.parse_zones() is called on the root of a tree.
InitZones ==
    /\ QueryIdle
    /\ IncludeIdle
    /\ ExtraIdle
    /\ tree \in Trees
    /\ \E setup \in CacheSetups : parser_cache = setup[1] /\ disk = setup[2]
    /\ pzConfigs = <<1>>
    /\ pzConfig = 0
    /\ pzZones = <<>>
    /\ pzCache = <<>>
    /\ pzCalls = [k \in AllKeys |-> 0]
    /\ pzState = "running"
    /\ pzResult = <<>>

\* all_zones: config = configs.pop(), and the iteration of its zones starts
PopConfig ==
    /\ pzState = "running"
    /\ pzConfig = 0
    /\ pzConfigs # <<>>
    /\ pzConfig' = pzConfigs[Len(pzConfigs)]
    /\ pzConfigs' = SubSeq(pzConfigs, 1, Len(pzConfigs) - 1)
    /\ pzZones' = tree.zones[pzConfigs[Len(pzConfigs)]]
    /\ UNCHANGED <<tree, parser_cache, disk, pzCache, pzCalls, pzState,
                   pzResult>>
    /\ UNCHANGED <<qvars, ivars, xvars>>

\* all_zones yields (config, zone) and parse_zones runs its loop body.
VisitZone ==
    /\ pzState = "running"
    /\ pzConfig # 0
    /\ pzZones # <<>>
    /\ LET zone == Head(pzZones)
           key == KeyOfZone(zone)
           ast == get_cached(parser_cache, disk, zone)
       IN  /\ pzZones' = Tail(pzZones)
           /\ IF key \in DOMAIN pzCache
              THEN /\ pzCache' = [pzCache EXCEPT
                                     ![key] = cache_hit(@, pzConfig)]
                   /\ UNCHANGED <<disk, pzCalls, pzState>>
              ELSE IF ast # NoAst
              THEN /\ pzCache' = pzCache @@
                         (key :> [ast |-> ast, configs |-> <<pzConfig>>])
                   /\ UNCHANGED <<disk, pzCalls, pzState>>
              ELSE /\ pzCalls' = [pzCalls EXCEPT ![key] = @ + 1]
                   /\ IF ParseRaises(zone.file)
                      THEN /\ pzState' = "raised"
                           /\ UNCHANGED <<disk, pzCache>>
                      ELSE /\ disk' = put_cache(parser_cache, disk, zone,
                                          parse_zone(zone.file, zone.origin))
                           /\ pzCache' = pzCache @@
                                 (key :> [ast |-> parse_zone(zone.file,
                                                             zone.origin),
                                          configs |-> <<pzConfig>>])
                           /\ UNCHANGED pzState
    /\ UNCHANGED <<tree, parser_cache, pzConfigs, pzConfig, pzResult>>
    /\ UNCHANGED <<qvars, ivars, xvars>>

\* all_zones: configs.extend(config.views.values())
ExtendViews ==
    /\ pzState = "running"
    /\ pzConfig # 0
    /\ pzZones = <<>>
    /\ pzConfigs' = pzConfigs \o Views(tree, pzConfig)
    /\ pzConfig' = 0
    /\ UNCHANGED <<tree, parser_cache, disk, pzZones, pzCache, pzCalls,
                   pzState, pzResult>>
    /\ UNCHANGED <<qvars, ivars, xvars>>

\* The orders in which a dict of these keys may list its values.
Orders(keys) ==
    {o \in [1..Cardinality(keys) -> keys] :
        \A i, j \in 1..Cardinality(keys) : i # j => o[i] # o[j]}

\* return cache.values(): one [key, ast, configs] per key, in dict order
\* (key is not part of the value; it names the entry here).
Return ==
    /\ pzState = "running"
    /\ pzConfig = 0
    /\ pzConfigs = <<>>
    /\ pzState' = "done"
    /\ \E o \in Orders(DOMAIN pzCache) :
          pzResult' = [i \in 1..Len(o) |->
                          [key |-> o[i], ast |-> pzCache[o[i]].ast,
                           configs |-> pzCache[o[i]].configs]]
    /\ UNCHANGED <<tree, parser_cache, disk, pzConfigs, pzConfig, pzZones,
                   pzCache, pzCalls>>
    /\ UNCHANGED <<qvars, ivars, xvars>>

NextZones == PopConfig \/ VisitZone \/ ExtendViews \/ Return

SpecZones == InitZones /\ [][NextZones]_vars

RECURSIVE ConcatReversed(_, _, _)
RECURSIVE Traversal(_, _)
\* The traversals of the nodes in kids, last one first, concatenated.
ConcatReversed(t, kids, i) ==
    IF i = 0 THEN <<>>
    ELSE Traversal(t, kids[i]) \o ConcatReversed(t, kids, i - 1)

\* The order in which a run visits the configs of the subtree at n: the
\* node itself, then the subtrees of its views, the last view first.
Traversal(t, n) ==
    <<n>> \o ConcatReversed(t, Views(t, n), Len(Views(t, n)))

Declares(t, n, k) ==
    \E i \in 1..Len(t.zones[n]) : KeyOfZone(t.zones[n][i]) = k

DeclaredKeys(t) == {k \in AllKeys : \E n \in Nodes(t) : Declares(t, n, k)}

Declarers(t, k) ==
    LET declares(n) == Declares(t, n, k)
    IN  SelectSeq(Traversal(t, 1), declares)

\* C8: in one parse_zones run over a config tree the zone parser is invoked
\* at most once per (file, origin) pair, and the returned list holds exactly
\* one entry per declared pair whose configs are the nodes declaring that
\* pair, once each, in traversal order.
C8_OneParseOneEntryPerKey ==
    /\ \A k \in AllKeys : pzCalls[k] <= 1
    /\ pzState = "done" =>
          /\ {pzResult[i].key : i \in 1..Len(pzResult)} = DeclaredKeys(tree)
          /\ \A i, j \in 1..Len(pzResult) :
                pzResult[i].key = pzResult[j].key => i = j
          /\ \A i \in 1..Len(pzResult) :
                pzResult[i].configs = Declarers(tree, pzResult[i].key)

\* A finished run over a tree in which a pair is declared by several nodes,
\* with more than one pair and a pair parsed by the zone parser.
C8_Witness ==
    /\ pzState = "done"
    /\ Len(pzResult) >= 2
    /\ \E i \in 1..Len(pzResult) :
          /\ Len(pzResult[i].configs) >= 2
          /\ pzCalls[pzResult[i].key] = 1

(***************************************************************************)
(* bsa/include_handler.py: build_path and IncludeHandler.                  *)
(*                                                                         *)
(* A path is the sequence of its components; an absolute path starts with  *)
(* the component "/".  An AST is [path, serial]: the result of the         *)
(* serial-th parse of the file at path.                                    *)
(***************************************************************************)
\* The interpreter's recursion limit, counted in nested parse_file calls.
RecursionLimit == 4
\* The number of include calls made from outside a parse.
MaxCalls == 2

SEP == "/"
PARDIR == ".."
CURDIR == "."

\* os.path.isabs
isabs(path) == path # <<>> /\ path[1] = SEP

\* os.path.join of two paths
join(a, b) == IF isabs(b) THEN b ELSE a \o b

\* os.path.dirname
dirname(path) ==
    IF path = <<>> \/ path = <<SEP>> THEN path
    ELSE SubSeq(path, 1, Len(path) - 1)

RECURSIVE normpath_loop(_, _, _)
normpath_loop(path, i, acc) ==
    IF i > Len(path) THEN acc
    ELSE IF path[i] = CURDIR THEN normpath_loop(path, i + 1, acc)
    ELSE IF path[i] = PARDIR /\ acc = <<SEP>>
    THEN normpath_loop(path, i + 1, acc)
    ELSE IF path[i] = PARDIR /\ acc # <<>> /\ acc[Len(acc)] # PARDIR
    THEN normpath_loop(path, i + 1, SubSeq(acc, 1, Len(acc) - 1))
    ELSE normpath_loop(path, i + 1, Append(acc, path[i]))

\* os.path.normpath
normpath(path) == normpath_loop(path, 1, <<>>)

RECURSIVE commonprefix(_, _, _)
\* the length of the common prefix of two component lists
commonprefix(a, b, i) ==
    IF i < Len(a) /\ i < Len(b) /\ a[i + 1] = b[i + 1]
    THEN commonprefix(a, b, i + 1)
    ELSE i

\* os.path.relpath(path, start) for absolute path and start
relpath(path, start) ==
    LET start_list == Tail(normpath(start))
        path_list == Tail(normpath(path))
        i == commonprefix(start_list, path_list, 0)
        rel_list == [k \in 1..(Len(start_list) - i) |-> PARDIR]
                    \o SubSeq(path_list, i + 1, Len(path_list))
    IN  IF rel_list = <<>> THEN <<CURDIR>> ELSE rel_list

\* os.path.isfile against the files on disk
isfile(files, path) == normpath(path) \in DOMAIN files

\* build_path trying the directory of the last path before the root directory
build_path_last_first(files, root_directory, path, last_path, fake_root) ==
    IF isabs(path)
    THEN join(root_directory, relpath(path, fake_root))
    ELSE IF isfile(files, join(dirname(last_path), path))
    THEN join(dirname(last_path), path)
    ELSE join(root_directory, path)

build_path(files, root_directory, path, last_path, fake_root) ==
    IF isabs(path)
    THEN join(root_directory, relpath(path, fake_root))
    ELSE IF isfile(files, join(root_directory, path))
    THEN join(root_directory, path)
    ELSE join(dirname(last_path), path)

\* DefaultStack
push_stack(st, path) == Append(st, path)
pop_stack(st) == SubSeq(st, 1, Len(st) - 1)
peek_stack(st) == st[Len(st)]

RootDirectory == <<SEP, "r">>
FakeRoot == <<SEP, "f">>
\* The path given to IncludeHandler.__init__: the top-level file.
TopPath == <<SEP, "r", "d", "t">>

P_dp == <<SEP, "r", "d", "p">>
P_dq == <<SEP, "r", "d", "q">>
P_eq == <<SEP, "r", "e", "q">>
FilePaths == {P_dp, P_dq, P_eq}

\* The paths of include directives.
D_dp == <<"d", "p">>
D_q == <<"q">>
D_eq == <<"e", "q">>
D_abs == <<SEP, "f", "d", "q">>
D_out == <<SEP, "d", "q">>
D_m == <<"m">>
Directives == {D_dp, D_q, D_eq, D_abs, D_out, D_m}

\* The include directives of one file, in order.
Contents == { <<>>, <<D_q>>, <<D_dp>>, <<D_eq, D_q>>, <<D_abs>>, <<D_m>> }

FileSystems == [FilePaths -> Contents]

Count(f, path) == IF path \in DOMAIN f THEN f[path] ELSE 0

Incremented(f, path) ==
    IF path \in DOMAIN f THEN [f EXCEPT ![path] = @ + 1]
    ELSE f @@ (path :> 1)

Ast(path, serial) == [path |-> path, serial |-> serial]

\* self.result_cache[path] = result
cache_store(rc, path, ast) ==
    IF path \in DOMAIN rc THEN [rc EXCEPT ![path] = ast]
    ELSE rc @@ (path :> ast)

\* The caller of an include call that returned moves on to its next
\* directive; a call made from outside a parse has no such caller.
Resume(fr) ==
    IF fr = <<>> THEN fr
    ELSE [fr EXCEPT ![Len(fr)].pc = @ + 1]

\* IncludeHandler.__init__ over some files on disk.
InitInclude ==
    /\ QueryIdle
    /\ ZonesIdle
    /\ ExtraIdle
    /\ fs \in FileSystems
    /\ stack = push_stack(<<>>, TopPath)
    /\ result_cache = <<>>
    /\ frames = <<>>
    /\ parses = <<>>
    /\ opens = <<>>
    /\ icalls = 0
    /\ ifailed = "none"
    /\ iret = NoReturn

\* include(arg) up to the point where it returns the cached AST, raises, or
\* has opened the file and handed it to parser.parse_file.  An exception
\* leaves every enclosing include call (none of them pops the stack).
include_enter(arg) ==
    LET path == build_path(fs, RootDirectory, arg, peek_stack(stack),
                           FakeRoot)
    IN  /\ stack' = push_stack(stack, path)
        /\ IF path \in DOMAIN result_cache
           THEN /\ iret' = [path |-> path, ast |-> result_cache[path],
                            hit |-> TRUE]
                /\ frames' = Resume(frames)
                /\ UNCHANGED <<parses, opens, ifailed>>
           ELSE IF ~isfile(fs, path)
           THEN /\ ifailed' = "IOError"
                /\ frames' = <<>>
                /\ UNCHANGED <<parses, opens, iret>>
           ELSE IF Len(frames) >= RecursionLimit
           THEN /\ ifailed' = "RuntimeError"
                /\ frames' = <<>>
                /\ UNCHANGED <<parses, opens, iret>>
           ELSE /\ opens' = Incremented(opens, path)
                /\ parses' = Incremented(parses, path)
                /\ frames' = Append(frames,
                                 [path |-> path, pc |-> 1,
                                  serial |-> Count(parses, path) + 1])
                /\ UNCHANGED <<ifailed, iret>>
        /\ UNCHANGED <<fs, result_cache>>

\* handler.include(arg) called from outside a parse.
Call(arg) ==
    /\ frames = <<>>
    /\ stack # <<>>
    /\ icalls < MaxCalls
    /\ icalls' = icalls + 1
    /\ include_enter(arg)
    /\ UNCHANGED <<qvars, zvars, xvars>>

\* The parser reaches the next include directive of the file being parsed.
Directive ==
    /\ frames # <<>>
    /\ LET top == frames[Len(frames)]
           content == fs[normpath(top.path)]
       IN  /\ top.pc <= Len(content)
           /\ include_enter(content[top.pc])
    /\ UNCHANGED icalls
    /\ UNCHANGED <<qvars, zvars, xvars>>

\* parser.parse_file returns: the result is cached, the stack popped and
\* the result returned.
Finish ==
    /\ frames # <<>>
    /\ LET top == frames[Len(frames)]
           content == fs[normpath(top.path)]
       IN  /\ top.pc > Len(content)
           /\ result_cache' = cache_store(result_cache, top.path,
                                          Ast(top.path, top.serial))
           /\ stack' = pop_stack(stack)
           /\ iret' = [path |-> top.path,
                       ast |-> Ast(top.path, top.serial), hit |-> FALSE]
           /\ frames' = Resume(SubSeq(frames, 1, Len(frames) - 1))
    /\ UNCHANGED <<fs, parses, opens, icalls, ifailed>>
    /\ UNCHANGED <<qvars, zvars, xvars>>

NextInclude == (\E arg \in Directives : Call(arg)) \/ Directive \/ Finish

SpecInclude == InitInclude /\ [][NextInclude]_vars

\* C9: across successful include calls on one handler the parser is invoked
\* at most once per resolved path and the file opened at most once, and an
\* include served from the cache returns the AST of that one parse.
C9_ParsedOncePerPath ==
    (frames = <<>> /\ ifailed = "none") =>
        /\ \A path \in DOMAIN parses : parses[path] <= 1
        /\ \A path \in DOMAIN opens : opens[path] <= 1
        /\ iret.hit => iret.ast = Ast(iret.path, 1)

\* C10: include expansion over a finite set of files ends by itself, also
\* when a file includes itself directly or transitively: no include call
\* recurses until the interpreter's recursion limit stops it.
C10_ExpansionEndsBelowRecursionLimit == ifailed # "RuntimeError"

(***************************************************************************)
(* bsa/include_handler.py: build_path as a function of its arguments and   *)
(* of the files on disk.                                                   *)
(***************************************************************************)
\* The path arguments of build_path.
PathArgs == {D_q, <<"d", "q">>, D_abs, D_out, FakeRoot, D_m}

\* The last_path arguments of build_path.
LastPaths == {TopPath, P_eq, <<SEP, "r", "d", "d", "t">>}

\* The files that may exist on disk.
DiskPaths == {<<SEP, "r", "q">>, P_dq, P_eq, <<SEP, "r", "d", "d", "q">>}

FilesOf(paths) == [path \in paths |-> <<>>]

InitPath ==
    /\ QueryIdle
    /\ ZonesIdle
    /\ IncludeIdle
    /\ ParserIdle
    /\ ModulesIdle
    /\ ConfigIdle
    /\ bpArgs \in [files : {FilesOf(paths) : paths \in SUBSET DiskPaths},
                   root_directory : {RootDirectory},
                   path : PathArgs,
                   last_path : LastPaths,
                   fake_root : {FakeRoot}]
    /\ bpResult = NoPath

\* build_path(root_directory, path, last_path, fake_root)
BuildPath ==
    /\ bpResult = NoPath
    /\ bpResult' = build_path(bpArgs.files, bpArgs.root_directory,
                              bpArgs.path, bpArgs.last_path,
                              bpArgs.fake_root)
    /\ UNCHANGED bpArgs
    /\ UNCHANGED <<qvars, zvars, ivars, pvars, mvars, cvars>>

\* The caller drops the result.
ForgetPath ==
    /\ bpResult # NoPath
    /\ bpResult' = NoPath
    /\ UNCHANGED bpArgs
    /\ UNCHANGED <<qvars, zvars, ivars, pvars, mvars, cvars>>

NextPath == BuildPath \/ ForgetPath

SpecPath == InitPath /\ [][NextPath]_vars

\* last_path without its final component
LastDirectory == SubSeq(bpArgs.last_path, 1, Len(bpArgs.last_path) - 1)

\* C11: build_path follows the three rules in priority order: an absolute
\* path gives root joined with the path relative to fake_root, whatever
\* last_path and the files on disk are; otherwise root/path if that is a
\* file, even when dirname(last_path)/path is one too; otherwise
\* dirname(last_path)/path.
C11_ThreeCaseRule ==
    bpResult # NoPath =>
        /\ isabs(bpArgs.path) =>
              /\ bpResult = bpArgs.root_directory
                               \o relpath(bpArgs.path, bpArgs.fake_root)
              /\ \A paths \in SUBSET DiskPaths, last \in LastPaths :
                    build_path(FilesOf(paths), bpArgs.root_directory,
                               bpArgs.path, last, bpArgs.fake_root)
                        = bpResult
        /\ (~isabs(bpArgs.path)
              /\ bpArgs.root_directory \o bpArgs.path
                    \in DOMAIN bpArgs.files) =>
              bpResult = bpArgs.root_directory \o bpArgs.path
        /\ (~isabs(bpArgs.path)
              /\ bpArgs.root_directory \o bpArgs.path
                    \notin DOMAIN bpArgs.files) =>
              bpResult = LastDirectory \o bpArgs.path

\* A relative path that names a file both under the root directory and next
\* to the last path, resolved to the one under the root directory.
C11_Witness ==
    /\ bpResult # NoPath
    /\ ~isabs(bpArgs.path)
    /\ bpArgs.root_directory \o bpArgs.path \in DOMAIN bpArgs.files
    /\ LastDirectory \o bpArgs.path \in DOMAIN bpArgs.files
    /\ LastDirectory \o bpArgs.path # bpArgs.root_directory \o bpArgs.path
    /\ bpResult = bpArgs.root_directory \o bpArgs.path

(***************************************************************************)
(* bsa/zone.py: ZoneParser and RecordBuilder.                              *)
(*                                                                         *)
(* The zone text and every token are sequences of one-character strings.   *)
(* None is the sequence <<"None">>, which no token equals.                 *)
(***************************************************************************)
\* The number of lines of a zone text.
MaxLines == 3

None == <<"None">>
WHITESPACE == {"\t", "\r", " "}
NEWLINE == "\n"

\* The locals of zone_tokenizer before the first character; out is the
\* sequence of tokens yielded so far.
TokenizerStart ==
    [collected |-> <<>>, quoted |-> FALSE, multiline |-> FALSE,
     comment |-> FALSE, escape |-> FALSE, first |-> FALSE, out |-> <<>>]

\* yield collected, if collected is not empty
YieldCollected(t) ==
    IF t.collected # <<>> THEN Append(t.out, t.collected) ELSE t.out

\* zone_tokenizer_step with the test for ; before the test for escape
zone_tokenizer_step_comment_first(t0, c) ==
    LET t == [t0 EXCEPT !.first = FALSE]
    IN  IF t0.first /\ c \in WHITESPACE
        THEN [t EXCEPT !.out = Append(t.out, <<>>)]
        ELSE IF c = NEWLINE
        THEN [t EXCEPT !.comment = FALSE,
                       !.quoted = FALSE,
                       !.out = IF t.multiline THEN YieldCollected(t)
                               ELSE Append(YieldCollected(t), None),
                       !.first = ~t.multiline,
                       !.collected = <<>>]
        ELSE IF c = ";" THEN [t EXCEPT !.comment = TRUE]
        ELSE IF t.escape
        THEN [t EXCEPT !.collected = Append(t.collected, c),
                       !.escape = FALSE]
        ELSE IF t.comment THEN t
        ELSE IF ~t.quoted /\ c \in WHITESPACE
        THEN [t EXCEPT !.out = YieldCollected(t), !.collected = <<>>]
        ELSE IF c = "\\" THEN [t EXCEPT !.escape = TRUE]
        ELSE IF c = "\"" THEN [t EXCEPT !.quoted = ~t.quoted]
        ELSE IF c = "(" THEN [t EXCEPT !.multiline = TRUE]
        ELSE IF c = ")" THEN [t EXCEPT !.multiline = FALSE]
        ELSE [t EXCEPT !.collected = Append(t.collected, c)]

\* One round of the loop of zone_tokenizer, on character c.
zone_tokenizer_step(t0, c) ==
    LET t == [t0 EXCEPT !.first = FALSE]
    IN  IF t0.first /\ c \in WHITESPACE
        THEN [t EXCEPT !.out = Append(t.out, <<>>)]
        ELSE IF c = NEWLINE
        THEN [t EXCEPT !.comment = FALSE,
                       !.quoted = FALSE,
                       !.out = IF t.multiline THEN YieldCollected(t)
                               ELSE Append(YieldCollected(t), None),
                       !.first = ~t.multiline,
                       !.collected = <<>>]
        ELSE IF t.escape
        THEN [t EXCEPT !.collected = Append(t.collected, c),
                       !.escape = FALSE]
        ELSE IF c = ";" THEN [t EXCEPT !.comment = TRUE]
        ELSE IF t.comment THEN t
        ELSE IF ~t.quoted /\ c \in WHITESPACE
        THEN [t EXCEPT !.out = YieldCollected(t), !.collected = <<>>]
        ELSE IF c = "\\" THEN [t EXCEPT !.escape = TRUE]
        ELSE IF c = "\"" THEN [t EXCEPT !.quoted = ~t.quoted]
        ELSE IF c = "(" THEN [t EXCEPT !.multiline = TRUE]
        ELSE IF c = ")" THEN [t EXCEPT !.multiline = FALSE]
        ELSE [t EXCEPT !.collected = Append(t.collected, c)]

RECURSIVE zone_tokenizer_loop(_, _, _, _)
\* for c in text: the rounds on text[lo..hi] in order, from state t (the
\* range is halved to keep the evaluation shallow).
zone_tokenizer_loop(text, lo, hi, t) ==
    IF lo > hi THEN t
    ELSE IF lo = hi THEN zone_tokenizer_step(t, text[lo])
    ELSE LET mid == (lo + hi) \div 2
             left == zone_tokenizer_loop(text, lo, mid, t)
         IN  IF left.out = <<>> /\ mid = hi THEN left
             ELSE zone_tokenizer_loop(text, mid + 1, hi, left)

\* The tokens zone_tokenizer yields for a text.
zone_tokenizer(text) ==
    LET t == zone_tokenizer_loop(text, 1, Len(text), TokenizerStart)
    IN  IF t.collected # <<>>
        THEN t.out \o <<t.collected, None>>
        ELSE t.out

\* One round of the loop of generate_lines, on token t.
generate_lines_step(g, t) ==
    IF t = None
    THEN IF g.collected # <<>>
         THEN [collected |-> <<>>, out |-> Append(g.out, g.collected)]
         ELSE g
    ELSE [g EXCEPT !.collected = Append(g.collected, t)]

RECURSIVE generate_lines_loop(_, _, _, _)
\* for t in self.zone_tokenizer(text): the rounds on tokens[lo..hi] in
\* order, from state g (the range is halved to keep the evaluation shallow).
generate_lines_loop(tokens, lo, hi, g) ==
    IF lo > hi THEN g
    ELSE IF lo = hi THEN generate_lines_step(g, tokens[lo])
    ELSE LET mid == (lo + hi) \div 2
             left == generate_lines_loop(tokens, lo, mid, g)
         IN  IF left.out = <<>> /\ mid = hi THEN left
             ELSE generate_lines_loop(tokens, mid + 1, hi, left)

\* The lines generate_lines yields for a text, each a tuple of tokens.
generate_lines(text) ==
    LET tokens == zone_tokenizer(text)
    IN  generate_lines_loop(tokens, 1, Len(tokens),
                            [collected |-> <<>>, out |-> <<>>]).out

\* The type names of ZoneParser.records, as tokens and as record_type.
RecordNames ==
    { <<<<"A">>, "A">>, <<<<"C", "N", "A", "M", "E">>, "CNAME">>, <<<<"P", "T", "R">>, "PTR">>,
      <<<<"T", "X", "T">>, "TXT">>, <<<<"N", "S">>, "NS">>, <<<<"M", "X">>, "MX">>,
      <<<<"S", "R", "V">>, "SRV">>, <<<<"A", "F", "S", "D", "B">>, "AFSDB">>, <<<<"S", "O", "A">>, "SOA">> }

\* token in self.record_names
IsRecordName(tok) == \E n \in RecordNames : n[1] = tok
RecordTypeOf(tok) == (CHOOSE n \in RecordNames : n[1] = tok)[2]

\* Record.VALID_CLASS_TYPES, as tokens and as class_type
ClassTypes == { <<<<"I", "N">>, "IN">>, <<<<"C", "H">>, "CH">> }
IsClassType(tok) == \E n \in ClassTypes : n[1] = tok
ClassTypeOf(tok) == (CHOOSE n \in ClassTypes : n[1] = tok)[2]
DEFAULT_CLASS_TYPE == "IN"

Digits == <<"0", "1", "2", "3", "4", "5", "6", "7", "8", "9">>
IsDigit(c) == \E d \in 1..Len(Digits) : Digits[d] = c
DigitValue(c) == (CHOOSE d \in 1..Len(Digits) : Digits[d] = c) - 1

RECURSIVE DecimalValue(_)
DecimalValue(s) ==
    IF s = <<>> THEN 0
    ELSE DecimalValue(SubSeq(s, 1, Len(s) - 1)) * Len(Digits)
            + DigitValue(s[Len(s)])

IsDecimal(s) == s # <<>> /\ \A i \in 1..Len(s) : IsDigit(s[i])

\* int(tok) succeeds: an optional sign and decimal digits
IsInt(tok) ==
    IF tok # <<>> /\ Head(tok) \in {"+", "-"} THEN IsDecimal(Tail(tok))
    ELSE IsDecimal(tok)

\* int(tok)
int(tok) ==
    IF Head(tok) = "-" THEN 0 - DecimalValue(Tail(tok))
    ELSE IF Head(tok) = "+" THEN DecimalValue(Tail(tok))
    ELSE DecimalValue(tok)

\* l[n:]
SliceFrom(l, n) == SubSeq(l, n + 1, Len(l))

PRAGMA == "P"
RECORD == "R"

\* A TTL that is None is <<>>, the TTL n is <<n>>.
NoTtl == <<>>

Raised(e) == [raises |-> e, t |-> "", val |-> <<>>]
Pragma(l) == [raises |-> "none", t |-> PRAGMA, val |-> l]
RecordLine(label, ttl, class_type, record_type, record) ==
    [raises |-> "none", t |-> RECORD,
     val |-> [label |-> label, ttl |-> ttl, class_type |-> class_type,
              record_type |-> record_type, record |-> record]]

\* l[0].startswith("$")
StartsWithDollar(tok) == tok # <<>> /\ Head(tok) = "$"

\* ZoneParser.parse_zone_line; l[n] of the code is l[n + 1] here.
parse_zone_line(l) ==
    IF StartsWithDollar(l[1]) THEN Pragma(l)
    ELSE IF Len(l) < 2 THEN Raised("IndexError")
    ELSE IF IsRecordName(l[2])
    THEN RecordLine(l[1], NoTtl, None, l[2], SliceFrom(l, 2))
    ELSE IF Len(l) < 3 THEN Raised("IndexError")
    ELSE IF IsRecordName(l[3])
    THEN IF IsClassType(l[2])
         THEN RecordLine(l[1], NoTtl, l[2], l[3], SliceFrom(l, 3))
         ELSE IF ~IsInt(l[2]) THEN Raised("ValueError")
         ELSE RecordLine(l[1], <<int(l[2])>>, None, l[3], SliceFrom(l, 3))
    ELSE IF Len(l) < 4 THEN Raised("IndexError")
    ELSE IF IsRecordName(l[4]) /\ IsClassType(l[3])
    THEN IF ~IsInt(l[2]) THEN Raised("ValueError")
         ELSE RecordLine(l[1], <<int(l[2])>>, l[3], l[4], SliceFrom(l, 4))
    ELSE IF IsRecordName(l[4]) /\ IsClassType(l[2])
    THEN IF ~IsInt(l[3]) THEN Raised("ValueError")
         ELSE RecordLine(l[1], <<int(l[3])>>, l[2], l[4], SliceFrom(l, 4))
    ELSE Raised("ValueError")

\* The number of rdata tokens a record class takes after args; TXT takes
\* any number.
Arity(rtype) ==
    CASE rtype \in {"A", "CNAME", "NS", "PTR"} -> {1}
      [] rtype \in {"MX", "AFSDB"} -> {2}
      [] rtype = "SRV" -> {4}
      [] rtype = "SOA" -> {7}
      [] rtype = "TXT" -> Nat

\* __key__() of a record of class rtype built from the rdata tokens rd
record_key(rtype, rd) ==
    CASE rtype \in {"A", "CNAME", "NS", "PTR"} -> <<rd[1]>>
      [] rtype = "TXT" -> <<rd>>
      [] rtype = "MX" -> <<rd[2], rd[1]>>
      [] rtype = "AFSDB" -> <<rd[1], rd[2]>>
      [] rtype = "SRV" -> rd
      [] rtype = "SOA" -> <<rd[1], rd[2], SliceFrom(rd, 2)>>

\* record_type(record_args, *record): the constructor of a record class and
\* Record.__init__; class_type is None or a token of VALID_CLASS_TYPES.
NewRecord(rtype, label, ttl, class_type, origin, record) ==
    IF Len(record) \notin Arity(rtype)
    THEN [raises |-> "TypeError", rr |-> <<>>]
    ELSE [raises |-> "none",
          rr |-> [rtype |-> rtype,
                  label |-> label,
                  ttl |-> ttl,
                  class_type |-> IF class_type = None
                                 THEN DEFAULT_CLASS_TYPE
                                 ELSE ClassTypeOf(class_type),
                  origin |-> IF origin = None \/ origin = <<>>
                             THEN <<DOT>> ELSE origin,
                  key |-> record_key(rtype, record)]]

ZonePath == "test.zone"

\* RecordBuilder.__init__(path, origin, records)
NewRecordBuilder(path, origin) ==
    [previous_label |-> None,
     ttl |-> DEFAULT_TTL,
     stack |-> <<[path |-> path, origin |-> origin]>>]

\* update_origin that leaves the origin as it was
update_origin_kept(b, origin) == b

\* RecordBuilder.update_origin
update_origin(b, origin) ==
    [b EXCEPT !.stack[Len(b.stack)].origin = origin]

\* RecordBuilder.update_ttl
update_ttl(b, ttl) == [b EXCEPT !.ttl = ttl]

\* inherit_label that keeps the first owner of the text as previous_label
inherit_label_first(b, label) ==
    IF label = <<>>
    THEN IF b.previous_label = None \/ b.previous_label = <<>>
         THEN [raises |-> "ValueError", label |-> label, b |-> b]
         ELSE [raises |-> "none", label |-> b.previous_label, b |-> b]
    ELSE [raises |-> "none", label |-> label,
          b |-> IF b.previous_label = None
                THEN [b EXCEPT !.previous_label = label] ELSE b]

\* if not label: label = self.previous_label (or raise)
\* else: self.previous_label = label
inherit_label(b, label) ==
    IF label = <<>>
    THEN IF b.previous_label = None \/ b.previous_label = <<>>
         THEN [raises |-> "ValueError", label |-> label, b |-> b]
         ELSE [raises |-> "none", label |-> b.previous_label, b |-> b]
    ELSE [raises |-> "none", label |-> label,
          b |-> [b EXCEPT !.previous_label = label]]

\* if ttl is None: ttl = self.ttl
record_ttl(b, ttl) == IF ttl = NoTtl THEN b.ttl ELSE ttl[1]

\* RecordBuilder.build_name_record: [raises, b, rr]
build_name_record(b, val) ==
    LET origin == b.stack[Len(b.stack)].origin
        owner == inherit_label(b, val.label)
        ttl == record_ttl(b, val.ttl)
        made == NewRecord(RecordTypeOf(val.record_type), owner.label, ttl,
                          val.class_type, origin, val.record)
    IN  IF owner.raises # "none"
        THEN [raises |-> owner.raises, b |-> b, rr |-> <<>>]
        ELSE [raises |-> made.raises, b |-> owner.b, rr |-> made.rr]

\* ZoneParser.handle_pragma: [raises, b]; no pragma adds records.
handle_pragma(b, val) ==
    IF val[1] = <<"$", "O", "R", "I", "G", "I", "N">>
    THEN IF Len(val) < 2 THEN [raises |-> "IndexError", b |-> b]
         ELSE [raises |-> "none", b |-> update_origin(b, val[2])]
    ELSE IF val[1] = <<"$", "T", "T", "L">>
    THEN IF Len(val) < 2 THEN [raises |-> "IndexError", b |-> b]
         ELSE IF ~IsInt(val[2]) THEN [raises |-> "ValueError", b |-> b]
         ELSE [raises |-> "none", b |-> update_ttl(b, int(val[2]))]
    ELSE IF val[1] = <<"$", "I", "N", "C", "L", "U", "D", "E">>
    THEN [raises |-> "TypeError", b |-> b]
    ELSE [raises |-> "ValueError", b |-> b]

\* One round of the loop of parse_generator on a line: [raises, b, result]
parse_generator_step(b, res, line) ==
    LET parsed == parse_zone_line(line)
        pragma == handle_pragma(b, parsed.val)
        built == build_name_record(b, parsed.val)
    IN  IF parsed.raises # "none"
        THEN [raises |-> parsed.raises, b |-> b, result |-> res]
        ELSE IF parsed.t = PRAGMA
        THEN [raises |-> pragma.raises, b |-> pragma.b, result |-> res]
        ELSE IF built.raises # "none"
        THEN [raises |-> built.raises, b |-> built.b, result |-> res]
        ELSE [raises |-> "none", b |-> built.b,
              result |-> Append(res, built.rr)]

RECURSIVE parse_generator_loop(_, _, _, _)
parse_generator_loop(lines, i, b, res) ==
    IF i > Len(lines) THEN [raises |-> "none", b |-> b, result |-> res]
    ELSE LET step == parse_generator_step(b, res, lines[i])
         IN  IF step.raises # "none" THEN step
             ELSE parse_generator_loop(lines, i + 1, step.b, step.result)

\* ZoneParser(path, origin).parse_string(text): [raises, b, result]
parse_string(text, origin) ==
    parse_generator_loop(generate_lines(text), 1,
                         NewRecordBuilder(ZonePath, origin), <<>>)

\* The lines zone texts are made of.
LinePool ==
    { <<"$", "O", "R", "I", "G", "I", "N", " ", "p", ".">>, <<"$", "T", "T", "L", " ", "7">>,
      <<"w", " ", "A", " ", "1", ".", "1", ".", "1", ".", "1">>, <<" ", "A", " ", "1", ".", "1", ".", "1", ".", "1">>, <<" ", "4", "2", " ", "C", "H", " ", "A", " ", "1", ".", "1", ".", "1", ".", "1">>,
      <<"@", " ", "C", "H", " ", "4", "2", " ", "A", " ", "x">>, <<".", " ", "4", "2", " ", "A", " ", "1", ".", "1", ".", "1", ".", "1">>, <<"v", ".", " ", "C", "H", " ", "C", "N", "A", "M", "E", " ", "t">>,
      <<" ", ";", " ", "c">>, <<>>, <<";", " ", "c">> }

RECURSIVE JoinLines(_)
\* The text of some lines, each ended by a newline.
JoinLines(ls) ==
    IF ls = <<>> THEN <<>>
    ELSE Head(ls) \o <<NEWLINE>> \o JoinLines(Tail(ls))

\* The zone of scenario S1.
ZoneS1 ==
    JoinLines(<< <<"$", "O", "R", "I", "G", "I", "N", " ", "e", "x", "a", "m", "p", "l", "e", ".", "c", "o", "m", ".">>,
                 <<".", " ", " ", " ", " ", " ", " ", " ", " ", "A", " ", " ", "1", ".", "1", ".", "1", ".", "1">>,
                 <<" ", " ", "4", "2", " ", " ", " ", " ", " ", "A", " ", " ", "1", ".", "1", ".", "1", ".", "1">>,
                 <<" ", " ", "C", "H", " ", " ", " ", " ", " ", "A", " ", " ", "1", ".", "1", ".", "1", ".", "1">>,
                 <<" ", " ", "4", "2", " ", "C", "H", " ", " ", "A", " ", " ", "1", ".", "1", ".", "1", ".", "1">>,
                 <<" ", " ", "C", "H", " ", "4", "2", " ", " ", "A", " ", " ", "1", ".", "1", ".", "1", ".", "1">>,
                 <<"w", "w", "w", " ", " ", " ", " ", " ", " ", "A", " ", " ", "1", ".", "1", ".", "1", ".", "1">>,
                 <<" ", " ", " ", " ", " ", " ", " ", " ", " ", "A", " ", " ", "1", ".", "1", ".", "1", ".", "1">> >>)

\* Zones with an $INCLUDE line, without and with an origin.
IncludeTexts ==
    { JoinLines(<< <<"$", "O", "R", "I", "G", "I", "N", " ", "p", ".">>, <<"w", " ", "A", " ", "1", ".", "1", ".", "1", ".", "1">>, <<"$", "I", "N", "C", "L", "U", "D", "E", " ", "s", "u", "b", ".", "z", "o", "n", "e">>,
                   <<" ", "A", " ", "1", ".", "1", ".", "1", ".", "1">> >>),
      JoinLines(<< <<"$", "I", "N", "C", "L", "U", "D", "E", " ", "s", "u", "b", ".", "z", "o", "n", "e", " ", "q", ".">>, <<"w", " ", "A", " ", "1", ".", "1", ".", "1", ".", "1">> >>) }

\* Zones with a quoted string: a ; inside the quotes, and a comment after
\* a quoted string.
QuotedTexts ==
    { JoinLines(<< <<"w", " ", "T", "X", "T", " ", "\"", "a", ";", "b", "\"">> >>),
      JoinLines(<< <<"w", " ", "T", "X", "T", " ", "\"", "a", " ", "b", "\"", " ", ";", " ", "c">>, <<" ", "T", "X", "T", " ", "\"", "c", ";", "\"", " ", "d">> >>) }

Texts ==
    {ZoneS1} \cup IncludeTexts \cup QuotedTexts \cup
    UNION { {JoinLines(ls) : ls \in [1..n -> LinePool]} : n \in 0..MaxLines }

\* The origin argument of ZoneParser: None or a zone's origin.
Origins == {None, <<"o">>}

\* ZoneParser(path, origin) is built and parse_string(text) called.
InitZoneParser ==
    /\ QueryIdle
    /\ ZonesIdle
    /\ IncludeIdle
    /\ PathIdle
    /\ ModulesIdle
    /\ ConfigIdle
    /\ zpText \in Texts
    /\ zpOrigin \in Origins
    /\ zpLines = generate_lines(zpText)
    /\ zpPos = 0
    /\ rb = NewRecordBuilder(ZonePath, zpOrigin)
    /\ rbCalls = <<>>
    /\ tk = NoTokenizer
    /\ zpResult = <<>>
    /\ zpState = "parsing"

\* parse_generator takes the next line of generate_lines and handles it.
ParseLine ==
    /\ zpState = "parsing"
    /\ zpPos < Len(zpLines)
    /\ LET step == parse_generator_step(rb, zpResult, zpLines[zpPos + 1])
       IN  /\ rb' = step.b
           /\ zpResult' = step.result
           /\ IF step.raises # "none"
              THEN zpState' = step.raises /\ UNCHANGED zpPos
              ELSE zpPos' = zpPos + 1 /\ UNCHANGED zpState
    /\ UNCHANGED <<zpText, zpOrigin, zpLines, rbCalls, tk>>
    /\ UNCHANGED <<qvars, zvars, ivars, bvars, mvars, cvars>>

\* generate_lines is exhausted: return result
ParseReturn ==
    /\ zpState = "parsing"
    /\ zpPos = Len(zpLines)
    /\ zpState' = "done"
    /\ UNCHANGED <<zpText, zpOrigin, zpLines, zpPos, rb, rbCalls, tk, zpResult>>
    /\ UNCHANGED <<qvars, zvars, ivars, bvars, mvars, cvars>>

NextZoneParser == ParseLine \/ ParseReturn

SpecZoneParser == InitZoneParser /\ [][NextZoneParser]_vars


\* line is a pragma line
IsPragmaLine(line) == StartsWithDollar(line[1])

\* The positions in zpLines of the record lines handled so far, in order;
\* the k-th record of zpResult was built from the k-th of them.
RecordLineIndexes ==
    LET isRecord(i) == ~IsPragmaLine(zpLines[i])
    IN  SelectSeq([i \in 1..zpPos |-> i], isRecord)

LineOfRecord(k) == zpLines[RecordLineIndexes[k]]

\* C12: every record the zone parser emits has a resolved_label ending
\* with ".", whatever the owner token and the current origin.
C12_ResolvedLabelEndsWithDot ==
    \A k \in 1..Len(zpResult) : EndsWithDot(resolved_label(zpResult[k]))

\* A finished parse that emitted a record with a relative owner under an
\* origin without trailing dot and one with owner "@" or "." under an
\* origin with trailing dot.
C12_Witness ==
    /\ zpState = "done"
    /\ \E k \in 1..Len(zpResult) :
          /\ ~EndsWithDot(zpResult[k].label)
          /\ ~EndsWithDot(zpResult[k].origin)
    /\ \E k \in 1..Len(zpResult) :
          /\ zpResult[k].label \in {<<"@">>, <<DOT>>}
          /\ EndsWithDot(zpResult[k].origin)


(***************************************************************************)
(* The zone text as written: its lines, and the fields of a line that has  *)
(* no quote, escape or parenthesis.                                        *)
(***************************************************************************)
RECURSIVE SplitAt(_, _)
\* s.split(c)
SplitAt(s, c) ==
    LET i == IndexFrom(s, c, 1)
    IN  IF i = 0 THEN <<s>>
        ELSE <<SubSeq(s, 1, i - 1)>> \o SplitAt(SubSeq(s, i + 1, Len(s)), c)

\* The lines of the text, each without its newline.
TextLines(text) ==
    LET parts == SplitAt(text, NEWLINE)
    IN  SubSeq(parts, 1, Len(parts) - 1)

\* A line up to its comment.
WithoutComment(raw) ==
    LET i == IndexFrom(raw, ";", 1)
    IN  IF i = 0 THEN raw ELSE SubSeq(raw, 1, i - 1)

RECURSIVE Fields(_, _)
\* The whitespace-separated fields of s; word is the field being read.
Fields(s, word) ==
    IF s = <<>> THEN (IF word = <<>> THEN <<>> ELSE <<word>>)
    ELSE IF Head(s) \in WHITESPACE
    THEN (IF word = <<>> THEN <<>> ELSE <<word>>) \o Fields(Tail(s), <<>>)
    ELSE Fields(Tail(s), Append(word, Head(s)))

FieldsOf(raw) == Fields(WithoutComment(raw), <<>>)

\* The first column of the line is whitespace: its owner field is empty.
HasBlankOwner(raw) == raw # <<>> /\ raw[1] \in WHITESPACE

\* The line is a record line: it has fields and is no pragma.
IsRecordText(raw) ==
    FieldsOf(raw) # <<>> /\ ~StartsWithDollar(FieldsOf(raw)[1])

\* The positions in the text of its record lines, in order; the k-th
\* record emitted was built from the k-th of them.
RecordTextIndexes ==
    LET lines == TextLines(zpText)
        isRecord(i) == IsRecordText(lines[i])
    IN  SelectSeq([i \in 1..Len(lines) |-> i], isRecord)

TextOfRecord(k) == TextLines(zpText)[RecordTextIndexes[k]]

\* The fields of a record line after its owner field.
AfterOwner(raw) ==
    IF HasBlankOwner(raw) THEN FieldsOf(raw) ELSE Tail(FieldsOf(raw))

\* The fields of a record line between its owner and its type: the fields
\* before the first one that names a record type.
BeforeType(raw) ==
    LET rest == AfterOwner(raw)
        types == {n \in 1..Len(rest) : IsRecordName(rest[n])}
    IN  IF types = {} THEN rest
        ELSE SubSeq(rest, 1, (CHOOSE n \in types : \A m \in types : n <= m) - 1)

\* The default TTL in force at line i of the text: that of the last $TTL
\* line before it, one day if there is none.
DefaultTtlAt(i) ==
    LET lines == TextLines(zpText)
        isTtl(j) == FieldsOf(lines[j]) # <<>>
                       /\ FieldsOf(lines[j])[1] = <<"$", "T", "T", "L">>
        before == {j \in 1..(i - 1) : isTtl(j)}
    IN  IF before = {} THEN DEFAULT_TTL
        ELSE int(FieldsOf(lines[CHOOSE j \in before :
                                   \A m \in before : m <= j])[2])

\* C13: a record line in one of the five accepted shapes gives a record
\* whose TTL is the line's TTL token if it has one and else the current
\* default TTL, and whose class is the line's class token if it has one and
\* else IN.
C13_TtlAndClassFromLine ==
    \A k \in 1..Len(zpResult) :
        LET pre == BeforeType(TextOfRecord(k))
            ttls == {n \in 1..Len(pre) : IsDecimal(pre[n])}
            classes == {n \in 1..Len(pre) : IsClassType(pre[n])}
        IN  /\ zpResult[k].ttl =
                  IF ttls = {} THEN DefaultTtlAt(RecordTextIndexes[k])
                  ELSE DecimalValue(pre[CHOOSE n \in ttls : TRUE])
            /\ zpResult[k].class_type =
                  IF classes = {} THEN "IN"
                  ELSE ClassTypeOf(pre[CHOOSE n \in classes : TRUE])


(***************************************************************************)
(* The S1 zone.                                                            *)
(***************************************************************************)
ExampleCom == <<"e", "x", "a", "m", "p", "l", "e", ".", "c", "o", "m", ".">>

WwwExampleCom == <<"w", "w", "w", ".", "e", "x", "a", "m", "p", "l", "e", ".", "c", "o", "m", ".">>

\* C14 as stated: parsing the S1 zone yields only records whose
\* resolved_label is example.com. or www.example.com.
C14_S1ResolvesUnderExampleCom ==
    zpText = ZoneS1 =>
        \A k \in 1..Len(zpResult) :
            resolved_label(zpResult[k]) \in {ExampleCom, WwwExampleCom}

\* C14, amended: parsing the S1 zone yields seven records; the owner "."
\* is absolute, so the record of the owner-"." line and those of the four
\* blank-owner lines after it resolve to ".", the root, and the two www
\* records resolve to www.example.com.
C14_S1ResolvesToRootAndWww ==
    (zpText = ZoneS1 /\ zpState = "done") =>
        /\ Len(zpResult) = 7
        /\ \A k \in 1..5 : resolved_label(zpResult[k]) = <<DOT>>
        /\ \A k \in 6..7 : resolved_label(zpResult[k]) = WwwExampleCom
        /\ \A k \in 1..7 : zpResult[k].origin = ExampleCom

\* The S1 zone was parsed to its end and gave its seven records.
C14_Witness ==
    /\ zpText = ZoneS1
    /\ zpState = "done"
    /\ Len(zpResult) = 7
    /\ zpResult[1].label = <<DOT>>
    /\ zpResult[7].label = <<"w", "w", "w">>


(***************************************************************************)
(* Owner inheritance.                                                      *)
(***************************************************************************)
\* The positions in lines of the record lines, in order.
RecordIndexesOf(lines) ==
    LET isRecord(i) == IsRecordText(lines[i])
    IN  SelectSeq([i \in 1..Len(lines) |-> i], isRecord)

\* The record lines among lines before line i that have an owner field.
OwnerLinesBefore(lines, i) ==
    {j \in 1..(i - 1) : IsRecordText(lines[j]) /\ ~HasBlankOwner(lines[j])}

\* The owner field of the last record line before line i that has one.
OwnerBefore(lines, i) ==
    LET before == OwnerLinesBefore(lines, i)
        last == CHOOSE j \in before : \A m \in before : m <= j
    IN  FieldsOf(lines[last])[1]

\* C15: a record emitted for a line whose first column is whitespace has
\* the label of the most recent record line before it that has an owner,
\* whatever blank-owner, comment, $TTL and $ORIGIN lines lie between.
C15_BlankOwnerInheritsLabel ==
    LET lines == TextLines(zpText)
        at == RecordIndexesOf(lines)
    IN  \A k \in 1..Len(zpResult) :
            (/\ HasBlankOwner(lines[at[k]])
             /\ OwnerLinesBefore(lines, at[k]) # {})
                => zpResult[k].label = OwnerBefore(lines, at[k])

\* A finished parse that emitted a record for a blank-owner line that
\* follows a line which is no record line (a pragma or a comment) and took
\* the owner of a record line further up.
C15_Witness ==
    LET lines == TextLines(zpText)
        at == RecordIndexesOf(lines)
    IN  /\ zpState = "done"
        /\ \E k \in 1..Len(zpResult) :
              /\ HasBlankOwner(lines[at[k]])
              /\ OwnerLinesBefore(lines, at[k]) # {}
              /\ ~IsRecordText(lines[at[k] - 1])
              /\ lines[at[k] - 1] # <<>>
              /\ zpResult[k].label = OwnerBefore(lines, at[k])

(***************************************************************************)
(* $ORIGIN.                                                                *)
(***************************************************************************)
\* The $ORIGIN lines among lines before line i.
OriginLinesBefore(lines, i) ==
    {j \in 1..(i - 1) : /\ FieldsOf(lines[j]) # <<>>
                        /\ FieldsOf(lines[j])[1] = <<"$", "O", "R", "I", "G", "I", "N">>}

\* The origin in force at line i: the name of the last $ORIGIN line before
\* it, and the origin the parser was built with if there is none (a record
\* without origin gets ".").
OriginAt(lines, i) ==
    LET before == OriginLinesBefore(lines, i)
        last == CHOOSE j \in before : \A m \in before : m <= j
    IN  IF before # {} THEN FieldsOf(lines[last])[2]
        ELSE IF zpOrigin = None THEN <<DOT>>
        ELSE zpOrigin

\* C16: every record has the origin named by the last $ORIGIN line before
\* its line, and the origin current before any $ORIGIN line otherwise; a
\* relative owner resolves to owner.origin.
C16_OriginOfLastPragma ==
    LET lines == TextLines(zpText)
        at == RecordIndexesOf(lines)
    IN  \A k \in 1..Len(zpResult) :
            LET origin == OriginAt(lines, at[k])
                label == zpResult[k].label
            IN  /\ zpResult[k].origin = origin
                /\ (~EndsWithDot(label) /\ ~HasChar(label, "@")
                       /\ normalize_label(origin) # <<DOT>>)
                      => resolved_label(zpResult[k])
                            = label \o <<DOT>> \o normalize_label(origin)

\* A finished parse with a $ORIGIN line between two records of a relative
\* owner: the one before it keeps the parser's origin, the one after it is
\* under the new origin.
C16_Witness ==
    LET lines == TextLines(zpText)
        at == RecordIndexesOf(lines)
    IN  /\ zpState = "done"
        /\ \E k \in 1..Len(zpResult) : \E n \in 1..Len(zpResult) :
              /\ k < n
              /\ OriginLinesBefore(lines, at[k]) = {}
              /\ OriginLinesBefore(lines, at[n]) # {}
              /\ zpResult[k].origin = <<"o">>
              /\ zpResult[n].origin = <<"p", ".">>
              /\ resolved_label(zpResult[k]) = <<"w", ".", "o", ".">>
              /\ resolved_label(zpResult[n]) = <<"w", ".", "p", ".">>

(***************************************************************************)
(* A blank owner with nothing to inherit.                                  *)
(***************************************************************************)
\* C17: a record line with an empty owner that no record line with an
\* owner precedes is rejected: no record is emitted for it.
C17_BlankOwnerWithoutPreviousRejected ==
    LET lines == TextLines(zpText)
        at == RecordIndexesOf(lines)
    IN  \A k \in 1..Len(zpResult) :
            HasBlankOwner(lines[at[k]])
                => OwnerLinesBefore(lines, at[k]) # {}

(***************************************************************************)
(* A addresses.                                                            *)
(***************************************************************************)
\* s is an IPv4 dotted quad: four decimal numbers up to 255.
ValidIPv4(s) ==
    LET parts == SplitAt(s, DOT)
    IN  /\ Len(parts) = 4
        /\ \A n \in 1..4 : /\ IsDecimal(parts[n])
                           /\ Len(parts[n]) <= 3
                           /\ DecimalValue(parts[n]) <= 255

\* C18: every A record the zone parser emits carries a valid IPv4 dotted
\* quad; an A line with any other rdata emits no record.
C18_AddressIsDottedQuad ==
    \A k \in 1..Len(zpResult) :
        zpResult[k].rtype = "A" => ValidIPv4(zpResult[k].key[1])


(***************************************************************************)
(* Record.__str__ and the round trip through it.                           *)
(***************************************************************************)
RECURSIVE str_int(_)
\* str(n) of a natural number
str_int(n) ==
    IF n < Len(Digits) THEN <<Digits[n + 1]>>
    ELSE Append(str_int(n \div Len(Digits)), Digits[(n % Len(Digits)) + 1])

RECURSIVE JoinWith(_, _)
\* sep.join(parts)
JoinWith(parts, sep) ==
    IF parts = <<>> THEN <<>>
    ELSE IF Len(parts) = 1 THEN parts[1]
    ELSE parts[1] \o sep \o JoinWith(Tail(parts), sep)

\* The token of a record type name and of a class type.
RecordNameOf(rtype) == (CHOOSE n \in RecordNames : n[2] = rtype)[1]
ClassNameOf(class_type) == (CHOOSE n \in ClassTypes : n[2] = class_type)[1]

\* origin_values() of each record class, from the fields its key holds
origin_values(rr) ==
    LET k == rr.key
        resolved(target) == join_origin(target, rr.origin)
    IN  CASE rr.rtype = "A" -> <<k[1]>>
          [] rr.rtype \in {"CNAME", "NS", "PTR"} -> <<resolved(k[1])>>
          [] rr.rtype = "TXT" ->
                [n \in 1..Len(k[1]) |-> <<"\"">> \o k[1][n] \o <<"\"">>]
          [] rr.rtype = "MX" -> <<k[2], resolved(k[1])>>
          [] rr.rtype = "AFSDB" -> <<k[1], resolved(k[2])>>
          [] rr.rtype = "SRV" -> <<k[1], k[2], k[3], resolved(k[4])>>
          [] rr.rtype = "SOA" ->
                <<resolved(k[1]), k[2],
                  <<"(">> \o JoinWith(k[3], <<" ">>) \o <<")">> >>

\* Record.__str__: "resolved_label ttl class_type record_type values"
str(rr) ==
    JoinWith(<<resolved_label(rr), str_int(rr.ttl), ClassNameOf(rr.class_type),
               RecordNameOf(rr.rtype), JoinWith(origin_values(rr), <<" ">>)>>,
             <<" ">>)

\* The printable form of a list of records, one per line.
Serialize(records) == JoinLines([n \in 1..Len(records) |-> str(records[n])])

\* The variant keys of a list of records.
VariantKeys(records) ==
    [n \in 1..Len(records) |-> <<records[n].rtype, records[n].key>>]

\* Two lists hold the same elements the same number of times.
SameMultiset(s, t) ==
    LET count(u, e) == Cardinality({n \in 1..Len(u) : u[n] = e})
    IN  /\ Len(s) = Len(t)
        /\ \A n \in 1..Len(s) : count(s, s[n]) = count(t, s[n])

\* C19: the records of a finished parse, serialized and parsed again, are
\* the same multiset of records by variant key.
C19_RoundTripByVariantKey ==
    zpState = "done" =>
        LET again == parse_string(Serialize(zpResult), zpOrigin)
        IN  /\ again.raises = "none"
            /\ SameMultiset(VariantKeys(zpResult), VariantKeys(again.result))


(***************************************************************************)
(* bsa/__init__.py: run_modules, DefaultBootstrap.execute and the          *)
(* reporter; bsa/suites: the run functions.                                *)
(***************************************************************************)
MaxModules == 2
MaxFindings == 1

\* The suites of bsa/suites.
Suites == {"bsa.suites.check_cname", "bsa.suites.check_ptr",
           "bsa.suites.check_srv"}

\* DefaultReporter.ERROR
ERROR == "error"

\* mod.run(db, reporter) of a suite: it calls reporter.error once for each
\* of its findings and ends without a return statement: [messages, result]
run(module, findings) ==
    [messages |-> [n \in 1..findings |-> [module |-> module, level |-> ERROR]],
     result |-> None]

\* DefaultBootstrap.execute(module): runs the suite, prints the reporter's
\* messages and returns what run returned.
execute(module, findings) ==
    LET ran == run(module, findings)
    IN  [printed |-> ran.messages, result |-> ran.result]

\* bool(v) of a value a suite returns
Truthy(v) == v # None

\* all(result)
all(res) == \A n \in 1..Len(res) : Truthy(res[n])

\* run_modules(zones, modules) is called.
InitModules ==
    /\ QueryIdle
    /\ ZonesIdle
    /\ IncludeIdle
    /\ PathIdle
    /\ ParserIdle
    /\ ConfigIdle
    /\ rmModules \in UNION {[1..n -> Suites] : n \in 0..MaxModules}
    /\ rmFindings \in [Suites -> 0..MaxFindings]
    /\ rmBind = "unset"
    /\ rmResult = <<>>
    /\ rmMessages = <<>>
    /\ rmExit = NoExit

\* b = bsa.bind.FakeBind(zones), which raises or not; on an exception
\* run_modules returns 1.
SetupBind ==
    /\ rmBind = "unset"
    /\ \E outcome \in {"ok", "fails"} :
          /\ rmBind' = outcome
          /\ rmExit' = IF outcome = "fails" THEN <<1>> ELSE rmExit
    /\ UNCHANGED <<rmModules, rmFindings, rmResult, rmMessages>>
    /\ UNCHANGED <<qvars, zvars, ivars, bvars, pvars, cvars>>

\* One round of the loop: result.append(bootstrap.execute(m))
ExecuteModule ==
    /\ rmBind = "ok"
    /\ rmExit = NoExit
    /\ Len(rmResult) < Len(rmModules)
    /\ LET m == rmModules[Len(rmResult) + 1]
           done == execute(m, rmFindings[m])
       IN  /\ rmResult' = Append(rmResult, done.result)
           /\ rmMessages' = rmMessages \o done.printed
    /\ UNCHANGED <<rmModules, rmFindings, rmBind, rmExit>>
    /\ UNCHANGED <<qvars, zvars, ivars, bvars, pvars, cvars>>

\* After the loop: return 1 if not all(result), else 0
ReturnModules ==
    /\ rmBind = "ok"
    /\ rmExit = NoExit
    /\ Len(rmResult) = Len(rmModules)
    /\ rmExit' = IF ~all(rmResult) THEN <<1>> ELSE <<0>>
    /\ UNCHANGED <<rmModules, rmFindings, rmBind, rmResult, rmMessages>>
    /\ UNCHANGED <<qvars, zvars, ivars, bvars, pvars, cvars>>

NextModules == SetupBind \/ ExecuteModule \/ ReturnModules

SpecModules == InitModules /\ [][NextModules]_vars

\* The suites named in modules that have something to report.
FailingModules ==
    {n \in 1..Len(rmModules) : rmFindings[rmModules[n]] > 0}

\* C20: when run_modules returns after running the suites, every named
\* suite was executed, those after a suite that reported an error too, and
\* the value returned is 0 if no suite had anything to report and 1 if at
\* least one had.
C20_ExitCodeFollowsSuites ==
    (rmBind = "ok" /\ rmExit # NoExit) =>
        /\ Len(rmResult) = Len(rmModules)
        /\ \A n \in FailingModules :
              \E k \in 1..Len(rmMessages) : rmMessages[k].module = rmModules[n]
        /\ rmExit = IF FailingModules = {} THEN <<0>> ELSE <<1>>


(***************************************************************************)
(* The parser cache on disk.                                               *)
(***************************************************************************)
\* A cache directory is configured and holds a readable file for the zone
\* whose modification time is greater than the zone file's.
NewerCacheFile(pc, d, zone) ==
    /\ pc # "none"
    /\ get_cache_path(zone) \in DOMAIN d
    /\ d[get_cache_path(zone)].readable
    /\ d[get_cache_path(zone)].mtime > ZoneFileMtime(zone.file)

\* The step gives the pair k its entry in the dict cache of parse_zones.
Enters(k) == k \notin DOMAIN pzCache /\ k \in DOMAIN pzCache'

\* C21: when a zone gets its entry in a parse_zones run, the AST is the
\* persisted one and no parse is made iff a cache directory is configured
\* and holds a readable file for the zone that is newer than the zone file,
\* equal times counting as not newer; otherwise the zone is parsed.
C21_CachedIffStrictlyNewer ==
    [][\A k \in AllKeys :
          Enters(k) =>
              LET served == pzCalls'[k] = pzCalls[k]
                  valid == NewerCacheFile(parser_cache, disk, Zone(k[1], k[2]))
              IN  /\ served <=> valid
                  /\ served => pzCache'[k].ast.from = "disk"
                  /\ ~served => pzCache'[k].ast.from = "parse"]_vars


(***************************************************************************)
(* The frame stack of the include handler.                                 *)
(***************************************************************************)
\* C25: as long as no include call has failed, every include call that
\* returned, from the cache or after a parse, has left the stack as it
\* found it: the stack holds the top-level file and one frame per include
\* call still parsing, and peek yields the file that is being parsed.
C25_ReturnedIncludeRestoresStack ==
    ifailed = "none" =>
        /\ Len(stack) = Len(frames) + 1
        /\ peek_stack(stack) = IF frames = <<>> THEN TopPath
                               ELSE frames[Len(frames)].path


(***************************************************************************)
(* named.py: the interpretation of a parsed named.conf.  A statement of    *)
(* the AST is the tuple (state, ident, args, section); every statement of  *)
(* one parse carries the same IncludeState, kept here as ConfState.        *)
(***************************************************************************)
MaxStmts == 2

Stmt(ident, args, section) ==
    [ident |-> ident, args |-> args, section |-> section]
\* An element of an identifier list: a statement that is only an ident.
Ident(i) == Stmt(i, <<>>, <<>>)

EmptyDict == <<>>
\* d[k] = v
Put(d, k, v) ==
    [x \in DOMAIN d \cup {k} |-> IF x = k THEN v ELSE d[x]]
\* d.update(e)
Update(d, e) ==
    [x \in DOMAIN d \cup DOMAIN e |-> IF x \in DOMAIN e THEN e[x] ELSE d[x]]

\* Python values of the option table: the type and, in the field of that
\* type, the value.
PyNone == [t |-> "None", b |-> FALSE, s |-> <<>>, l |-> <<>>]
PyStr(s) == [PyNone EXCEPT !.t = "str", !.s = s]
PyBool(b) == [PyNone EXCEPT !.t = "bool", !.b = b]
PyList(l) == [PyNone EXCEPT !.t = "list", !.l = l]
IPv4Address(s) == [t |-> "IPv4Address", v |-> s]

LowerChar(c) ==
    CASE c = "Y" -> "y"
      [] c = "E" -> "e"
      [] c = "S" -> "s"
      [] c = "N" -> "n"
      [] c = "O" -> "o"
      [] OTHER -> c
lower(s) == [i \in 1..Len(s) |-> LowerChar(s[i])]

convert_bool(value) == lower(value) \in {<<"t", "r", "u", "e">>, <<"y", "e", "s">>}

\* convert_ident_list with the default converter: str of a str is itself.
convert_ident_list(section) ==
    [k \in 1..Len(section) |-> section[k].ident]

\* convert_ident_list(section, convert_ipv4); ipaddr raises on a value that
\* is no address.
convert_ident_list_ipv4(section) ==
    IF \E k \in 1..Len(section) : ~ValidIPv4(section[k].ident)
    THEN [raises |-> "AddressValueError", value |-> <<>>]
    ELSE [raises |-> "none",
          value |-> [k \in 1..Len(section) |-> IPv4Address(section[k].ident)]]

OptionNames ==
    {<<"d", "i", "r", "e", "c", "t", "o", "r", "y">>, <<"a", "l", "s", "o", "-", "n", "o", "t", "i", "f", "y">>, <<"a", "u", "t", "h", "-", "n", "x", "d", "o", "m", "a", "i", "n">>, <<"l", "i", "s", "t", "e", "n", "-", "o", "n", "-", "v", "6">>,
     <<"a", "l", "l", "o", "w", "-", "r", "e", "c", "u", "r", "s", "i", "o", "n">>, <<"a", "l", "l", "o", "w", "-", "t", "r", "a", "n", "s", "f", "e", "r">>, <<"s", "t", "a", "t", "i", "s", "t", "i", "c", "s", "-", "f", "i", "l", "e">>}

DefaultOptions ==
    [d \in OptionNames |->
        CASE d = <<"d", "i", "r", "e", "c", "t", "o", "r", "y">> -> PyStr(<<"/", "e", "t", "c", "/", "b", "i", "n", "d">>)
          [] d = <<"a", "l", "s", "o", "-", "n", "o", "t", "i", "f", "y">> -> PyList(<<>>)
          [] d = <<"a", "u", "t", "h", "-", "n", "x", "d", "o", "m", "a", "i", "n">> -> PyNone
          [] d = <<"l", "i", "s", "t", "e", "n", "-", "o", "n", "-", "v", "6">> -> PyBool(FALSE)
          [] d = <<"a", "l", "l", "o", "w", "-", "r", "e", "c", "u", "r", "s", "i", "o", "n">> -> PyBool(TRUE)
          [] d = <<"a", "l", "l", "o", "w", "-", "t", "r", "a", "n", "s", "f", "e", "r">> -> PyBool(TRUE)
          [] d = <<"s", "t", "a", "t", "i", "s", "t", "i", "c", "s", "-", "f", "i", "l", "e">> -> PyNone]

\* BindConfig.__init__ and, with parent and name, BindView.__init__.
NewBindConfig ==
    [type |-> "BindConfig", parent |-> 0, name |-> <<>>,
     match_clients |-> <<>>, views |-> EmptyDict, zones |-> EmptyDict,
     options |-> DefaultOptions, acl |-> EmptyDict]
NewBindView(parent, name) ==
    [NewBindConfig EXCEPT !.type = "BindView", !.parent = parent,
                          !.name = name]

\* One step of the loop of read_options over the statements of the block.
read_options_step(r, s) ==
    IF r.raises # "none" THEN r
    ELSE IF s.ident = <<"d", "i", "r", "e", "c", "t", "o", "r", "y">>
    THEN [r EXCEPT !.options = Put(@, <<"d", "i", "r", "e", "c", "t", "o", "r", "y">>, PyStr(s.args[1]))]
    ELSE IF s.ident = <<"a", "l", "s", "o", "-", "n", "o", "t", "i", "f", "y">>
    THEN LET l == convert_ident_list_ipv4(s.section)
         IN  IF l.raises # "none" THEN [r EXCEPT !.raises = l.raises]
             ELSE [r EXCEPT !.options =
                                Put(@, <<"a", "l", "s", "o", "-", "n", "o", "t", "i", "f", "y">>, PyList(l.value))]
    ELSE IF s.ident = <<"a", "u", "t", "h", "-", "n", "x", "d", "o", "m", "a", "i", "n">>
    THEN [r EXCEPT !.options =
                       Put(@, <<"a", "u", "t", "h", "-", "n", "x", "d", "o", "m", "a", "i", "n">>, PyBool(convert_bool(s.args[1])))]
    ELSE IF s.ident = <<"a", "l", "l", "o", "w", "-", "r", "e", "c", "u", "r", "s", "i", "o", "n">>
    THEN [r EXCEPT !.options =
              Put(@, <<"a", "l", "l", "o", "w", "-", "r", "e", "c", "u", "r", "s", "i", "o", "n">>, PyList(convert_ident_list(s.section)))]
    ELSE IF s.ident = <<"a", "l", "l", "o", "w", "-", "t", "r", "a", "n", "s", "f", "e", "r">>
    THEN [r EXCEPT !.options =
              Put(@, <<"a", "l", "l", "o", "w", "-", "r", "e", "c", "u", "r", "s", "i", "o", "n">>, PyList(convert_ident_list(s.section)))]
    ELSE IF s.ident = <<"s", "t", "a", "t", "i", "s", "t", "i", "c", "s", "-", "f", "i", "l", "e">>
    THEN [r EXCEPT !.options = Put(@, <<"s", "t", "a", "t", "i", "s", "t", "i", "c", "s", "-", "f", "i", "l", "e">>, PyStr(s.args[1]))]
    ELSE IF s.ident = <<"l", "i", "s", "t", "e", "n", "-", "o", "n", "-", "v", "6">>
    THEN [r EXCEPT !.options =
              Put(@, <<"l", "i", "s", "t", "e", "n", "-", "o", "n", "-", "v", "6">>, PyList(convert_ident_list(s.section)))]
    ELSE [r EXCEPT !.warnings = Append(@, s.ident)]

RECURSIVE read_options_loop(_, _, _)
read_options_loop(source_section, k, r) ==
    IF k > Len(source_section) THEN r
    ELSE read_options_loop(source_section, k + 1,
                           read_options_step(r, source_section[k]))

read_options(source_section) ==
    read_options_loop(source_section, 1,
        [raises |-> "none", options |-> EmptyDict, warnings |-> <<>>])

\* BindConfig.update_attribute on the node value: the node afterwards, the
\* warnings logged and the exception raised.
BindConfig_update_attribute(node, ident, args, section) ==
    IF ident = <<"o", "p", "t", "i", "o", "n", "s">>
    THEN LET r == read_options(section)
         IN  [raises |-> r.raises, warnings |-> r.warnings,
              node |-> IF r.raises # "none" THEN node
                       ELSE [node EXCEPT !.options = Update(@, r.options)]]
    ELSE IF ident = <<"a", "c", "l">>
    THEN [raises |-> "none", warnings |-> <<>>,
          node |-> [node EXCEPT !.acl =
                        Put(@, ident, convert_ident_list(section))]]
    ELSE IF ident = <<"l", "o", "g", "g", "i", "n", "g">>
    THEN [raises |-> "none", warnings |-> <<>>, node |-> node]
    ELSE [raises |-> "none", warnings |-> <<ident>>, node |-> node]

\* BindView.update_attribute: what is not match-clients goes to
\* super().update_attributes, a name BindConfig does not define.
BindView_update_attribute(node, ident, args, section) ==
    IF ident = <<"m", "a", "t", "c", "h", "-", "c", "l", "i", "e", "n", "t", "s">>
    THEN [raises |-> "none", warnings |-> <<>>,
          node |-> [node EXCEPT !.match_clients =
                        @ \o convert_ident_list(section)]]
    ELSE [raises |-> "AttributeError", warnings |-> <<>>, node |-> node]

update_attribute(node, ident, args, section) ==
    IF node.type = "BindView"
    THEN BindView_update_attribute(node, ident, args, section)
    ELSE BindConfig_update_attribute(node, ident, args, section)

\* The IncludeState of the statements: IncludeState.build_path resolves with
\* what the handler held when the statement was parsed.
ConfState ==
    [files |-> FilesOf({P_dq}), root_directory |-> RootDirectory,
     last_path |-> TopPath, fake_root |-> FakeRoot]
state_build_path(state, path) ==
    build_path(state.files, state.root_directory, path, state.last_path,
               state.fake_root)

\* BindZone.__init__ and BindZone.update_attributes.
NewBindZone(origin) ==
    [origin |-> origin, file |-> None, allow_update |-> <<>>]
zone_update_step(zone, s) ==
    IF s.ident = <<"f", "i", "l", "e">>
    THEN [zone EXCEPT !.file = state_build_path(ConfState, s.args[1])]
    ELSE IF s.ident = <<"a", "l", "l", "o", "w", "-", "u", "p", "d", "a", "t", "e">>
    THEN [zone EXCEPT !.allow_update = @ \o convert_ident_list(s.section)]
    ELSE zone
RECURSIVE zone_update_loop(_, _, _)
zone_update_loop(section_ast, k, zone) ==
    IF k > Len(section_ast) THEN zone
    ELSE zone_update_loop(section_ast, k + 1,
                          zone_update_step(zone, section_ast[k]))
zone_update_attributes(zone, section_ast) ==
    zone_update_loop(section_ast, 1, zone)


\* The statements of the configurations explored.
AclA == Stmt(<<"a", "c", "l">>, <<<<"a">>>>, <<Ident(<<"i", "1">>), Ident(<<"i", "2">>)>>)
AclB == Stmt(<<"a", "c", "l">>, <<<<"b">>>>, <<Ident(<<"i", "3">>)>>)
OptionsDirectory ==
    Stmt(<<"o", "p", "t", "i", "o", "n", "s">>, <<>>,
         <<Stmt(<<"d", "i", "r", "e", "c", "t", "o", "r", "y">>, <<<<"d">>>>, <<>>),
           Stmt(<<"a", "l", "l", "o", "w", "-", "t", "r", "a", "n", "s", "f", "e", "r">>, <<>>, <<Ident(<<"i", "1">>)>>),
           Stmt(<<"b", "o", "g", "u", "s">>, <<>>, <<>>)>>)
OptionsRecursion ==
    Stmt(<<"o", "p", "t", "i", "o", "n", "s">>, <<>>,
         <<Stmt(<<"a", "l", "l", "o", "w", "-", "r", "e", "c", "u", "r", "s", "i", "o", "n">>, <<>>, <<Ident(<<"i", "2">>)>>),
           Stmt(<<"s", "t", "a", "t", "i", "s", "t", "i", "c", "s", "-", "f", "i", "l", "e">>, <<<<"s">>>>, <<>>),
           Stmt(<<"a", "u", "t", "h", "-", "n", "x", "d", "o", "m", "a", "i", "n">>, <<<<"Y", "e", "s">>>>, <<>>)>>)
OptionsNotify ==
    Stmt(<<"o", "p", "t", "i", "o", "n", "s">>, <<>>,
         <<Stmt(<<"a", "l", "s", "o", "-", "n", "o", "t", "i", "f", "y">>, <<>>, <<Ident(<<"1", ".", "1", ".", "1", ".", "1">>)>>),
           Stmt(<<"l", "i", "s", "t", "e", "n", "-", "o", "n", "-", "v", "6">>, <<>>, <<Ident(<<"a", "n", "y">>)>>),
           Stmt(<<"a", "u", "t", "h", "-", "n", "x", "d", "o", "m", "a", "i", "n">>, <<<<"n", "o">>>>, <<>>)>>)
OptionsBadNotify ==
    Stmt(<<"o", "p", "t", "i", "o", "n", "s">>, <<>>,
         <<Stmt(<<"a", "l", "s", "o", "-", "n", "o", "t", "i", "f", "y">>, <<>>, <<Ident(<<"a", "n", "y">>)>>)>>)
Logging == Stmt(<<"l", "o", "g", "g", "i", "n", "g">>, <<>>, <<>>)
Unhandled == Stmt(<<"b", "o", "g", "u", "s">>, <<>>, <<>>)
ZoneZ ==
    Stmt(<<"z", "o", "n", "e">>, <<<<"z">>>>,
         <<Stmt(<<"f", "i", "l", "e">>, <<D_q>>, <<>>),
           Stmt(<<"a", "l", "l", "o", "w", "-", "u", "p", "d", "a", "t", "e">>, <<>>, <<Ident(<<"i", "1">>)>>)>>)
MatchClients == Stmt(<<"m", "a", "t", "c", "h", "-", "c", "l", "i", "e", "n", "t", "s">>, <<>>, <<Ident(<<"i", "1">>), Ident(<<"i", "2">>)>>)

PlainStmts ==
    {AclA, AclB, OptionsDirectory, OptionsRecursion, OptionsNotify,
     OptionsBadNotify, Logging, Unhandled, ZoneZ, MatchClients}
ViewStmt(name, section) == Stmt(<<"v", "i", "e", "w">>, <<name>>, section)
ViewStmts ==
    {ViewStmt(<<"v">>, <<s>>) : s \in PlainStmts}
        \cup {ViewStmt(<<"v">>, <<>>),
              ViewStmt(<<"w">>, <<MatchClients, ZoneZ>>),
              ViewStmt(<<"w">>, <<ViewStmt(<<"v">>, <<MatchClients>>)>>)}
StmtPool == PlainStmts \cup ViewStmts

RECURSIVE SectionsOf(_, _)
SectionsOf(pool, n) ==
    IF n = 0 THEN {<<>>}
    ELSE LET shorter == SectionsOf(pool, n - 1)
         IN  shorter \cup {Append(sec, s) : sec \in shorter, s \in pool}
RootSections == SectionsOf(StmtPool, MaxStmts)

QueueEntry(config, section) == [config |-> config, section |-> section]

\* config = BindConfig(); config.update_from_section(ast) is entered:
\* queue = [(self, source_section)].
InitConfig ==
    /\ QueryIdle
    /\ ZonesIdle
    /\ IncludeIdle
    /\ PathIdle
    /\ ParserIdle
    /\ ModulesIdle
    /\ cfNodes = <<NewBindConfig>>
    /\ \E source_section \in RootSections :
           cfQueue = <<QueueEntry(1, source_section)>>
    /\ cfConfig = 0
    /\ cfSection = <<>>
    /\ cfWarnings = <<>>
    /\ cfState = "running"

otherThanConfig == <<qvars, zvars, ivars, bvars, pvars, mvars>>

\* while queue: config, source_section = queue.pop(), the for loop of the
\* section popped before having run out.
PopQueue ==
    /\ cfState = "running"
    /\ cfSection = <<>>
    /\ cfQueue # <<>>
    /\ cfConfig' = cfQueue[Len(cfQueue)].config
    /\ cfSection' = cfQueue[Len(cfQueue)].section
    /\ cfQueue' = SubSeq(cfQueue, 1, Len(cfQueue) - 1)
    /\ UNCHANGED <<cfNodes, cfWarnings, cfState>>
    /\ UNCHANGED otherThanConfig

\* One iteration of the for loop: a zone, a view, or update_attribute of
\* the class of the config.
Statement ==
    /\ cfState = "running"
    /\ cfSection # <<>>
    /\ LET s == Head(cfSection)
           config == cfNodes[cfConfig]
       IN  IF s.ident = <<"z", "o", "n", "e">>
           THEN LET zone == zone_update_attributes(NewBindZone(s.args[1]),
                                                   s.section)
                IN  /\ cfNodes' = [cfNodes EXCEPT ![cfConfig].zones =
                                       Put(@, zone.origin, zone)]
                    /\ UNCHANGED <<cfQueue, cfWarnings, cfState>>
           ELSE IF s.ident = <<"v", "i", "e", "w">>
           THEN LET view == Len(cfNodes) + 1
                IN  /\ cfNodes' =
                           Append([cfNodes EXCEPT ![cfConfig].views =
                                       Put(@, s.args[1], view)],
                                  NewBindView(cfConfig, s.args[1]))
                    /\ cfQueue' = <<QueueEntry(view, s.section)>> \o cfQueue
                    /\ UNCHANGED <<cfWarnings, cfState>>
           ELSE LET r == update_attribute(config, s.ident, s.args, s.section)
                IN  /\ cfNodes' = [cfNodes EXCEPT ![cfConfig] = r.node]
                    /\ cfWarnings' = cfWarnings \o r.warnings
                    /\ cfState' = IF r.raises = "none" THEN "running"
                                  ELSE r.raises
                    /\ UNCHANGED cfQueue
    /\ cfSection' = Tail(cfSection)
    /\ UNCHANGED cfConfig
    /\ UNCHANGED otherThanConfig

\* The queue is empty: update_from_section returns.
ReturnConfig ==
    /\ cfState = "running"
    /\ cfSection = <<>>
    /\ cfQueue = <<>>
    /\ cfState' = "done"
    /\ UNCHANGED <<cfNodes, cfQueue, cfConfig, cfSection, cfWarnings>>
    /\ UNCHANGED otherThanConfig

NextConfig == PopQueue \/ Statement \/ ReturnConfig

SpecConfig == InitConfig /\ [][NextConfig]_vars


\* The for loop interprets the statement s at the node n in this step.
Interprets(n, s) ==
    /\ cfState = "running"
    /\ cfSection # <<>>
    /\ cfConfig = n
    /\ Head(cfSection) = s
    /\ cfSection' = Tail(cfSection)
IsRoot(n) == n \in DOMAIN cfNodes /\ cfNodes[n].type = "BindConfig"
IsView(n) == n \in DOMAIN cfNodes /\ cfNodes[n].type = "BindView"

\* C22: interpreting acl NAME { i1; ...; in; } at the root node sets
\* acl[NAME] to the list of the identifiers and leaves the entries of the
\* other names as they were, so that acl statements with distinct names
\* give one entry per name.
C22_AclStoredUnderItsName ==
    [][\A n \in DOMAIN cfNodes : \A s \in {AclA, AclB} :
          (IsRoot(n) /\ Interprets(n, s)) =>
              LET acl == cfNodes[n].acl
                  after == cfNodes'[n].acl
              IN  /\ DOMAIN after = DOMAIN acl \cup {s.args[1]}
                  /\ after[s.args[1]] = convert_ident_list(s.section)
                  /\ \A k \in DOMAIN acl \ {s.args[1]} : after[k] = acl[k]]_vars

\* The directives of an options block that name an option.
Recognized(section) ==
    {section[k].ident : k \in 1..Len(section)} \cap OptionNames
OptionsStmts ==
    {OptionsDirectory, OptionsRecursion, OptionsNotify, OptionsBadNotify}

\* C23: interpreting an options block at the root node leaves every option
\* the block has no directive for at its previous value, and the keys of
\* options stay the seven option names.
C23_OptionsFrame ==
    [][\A n \in DOMAIN cfNodes : \A s \in OptionsStmts :
          (IsRoot(n) /\ Interprets(n, s)) =>
              /\ DOMAIN cfNodes'[n].options = OptionNames
              /\ \A d \in OptionNames \ Recognized(s.section) :
                     cfNodes'[n].options[d] = cfNodes[n].options[d]]_vars

\* C24: options, acl, logging and unknown statements in a view body are
\* handled as at the root, on the view: the view becomes what
\* BindConfig.update_attribute makes of it, nothing is raised that the
\* root would not raise, and no other node changes.
C24_ViewBodyAsAtRoot ==
    [][\A n \in DOMAIN cfNodes : \A s \in PlainStmts \ {ZoneZ, MatchClients} :
          (IsView(n) /\ Interprets(n, s)) =>
              LET r == BindConfig_update_attribute(cfNodes[n], s.ident,
                                                   s.args, s.section)
              IN  /\ cfNodes'[n] = r.node
                  /\ cfState' = IF r.raises = "none" THEN "running"
                                ELSE r.raises
                  /\ \A m \in DOMAIN cfNodes \ {n} :
                         cfNodes'[m] = cfNodes[m]]_vars


(***************************************************************************)
(* The wildcard fallback of regular_iquery.                                *)
(***************************************************************************)
\* The result holds a record that is not stored under the exact key.
FellBack == \E i \in 1..Len(result) : KeyOf(result[i]) # ExactKey

\* C26: a regular query yields a record of the wildcard name only when the
\* index holds no record at all under the exact name, whether or not the
\* filters let the exact-name records through.
C26_WildcardOnlyWithoutExactRecord ==
    (Regular /\ Stored(ExactKey) # <<>>) => ~FellBack

\* The labels of a name, the empty label after the final dot included.
LabelsOf(name) == SplitDot(normalize_label(name))
\* owner is * followed by all labels of name but the first.
IsStarOwnerOf(owner, name) ==
    /\ Len(LabelsOf(owner)) = Len(LabelsOf(name))
    /\ LabelsOf(owner)[1] = <<STAR>>
    /\ \A i \in 2..Len(LabelsOf(name)) :
           /\ LabelsOf(owner)[i] = LabelsOf(name)[i]
           /\ LabelsOf(owner)[i] # <<STAR>>
OwnerOf(pos) == resolved_label(RecAt(zones, pos))

\* C27: every record a regular query returns is owned by the queried name
\* or by * followed by the query's labels after the first: no record whose
\* owner has another number of labels, or a * after its first label.
C27_FallbackIsLeftmostStar ==
    Regular =>
        \A i \in 1..Len(result) :
            \/ LabelsOf(OwnerOf(result[i])) = LabelsOf(q.label)
            \/ IsStarOwnerOf(OwnerOf(result[i]), q.label)

\* A query of a.b.x answered from *.b.x. while the database also holds
\* *.x. or a.*.x.
C27_Witness ==
    /\ Regular
    /\ Len(LabelsOf(q.label)) = 4
    /\ FellBack
    /\ \E k \in 1..Len(AllPositions(zones)) :
           LET pos == AllPositions(zones)[k]
           IN  /\ HasChar(OwnerOf(pos), STAR)
               /\ ~IsStarOwnerOf(OwnerOf(pos), q.label)
               /\ ~InList(pos, result)


(***************************************************************************)
(* $INCLUDE in a zone.                                                     *)
(***************************************************************************)
IsIncludeLine(line) == line # <<>> /\ line[1] = <<"$", "I", "N", "C", "L", "U", "D", "E">>
\* parse_generator stands before an $INCLUDE line.
AtInclude ==
    /\ zpState = "parsing"
    /\ zpPos < Len(zpLines)
    /\ IsIncludeLine(zpLines[zpPos + 1])

\* C28: the step of the parse that handles a $INCLUDE line completes and
\* leaves the stack of the builder, and with it the current origin of the
\* including file, as it was before the line.
C28_IncludeRestoresOrigin ==
    [][AtInclude =>
          /\ zpState' = "parsing"
          /\ zpPos' = zpPos + 1
          /\ rb'.stack = rb.stack]_vars

(***************************************************************************)
(* zone.py: the RecordBuilder as the IncludeStack of an include handler:   *)
(* its methods called in any order, push_stack when an included file is    *)
(* entered and pop_stack when it is left.                                  *)
(***************************************************************************)
MaxBuilderCalls == 4

\* RecordBuilder.push_stack, pop_stack and peek_stack
rb_push_stack(b, path) ==
    [b EXCEPT !.stack =
         Append(@, [path |-> path, origin |-> b.stack[Len(b.stack)].origin])]
rb_pop_stack(b) == [b EXCEPT !.stack = SubSeq(@, 1, Len(@) - 1)]
rb_peek_stack(b) == b.stack[Len(b.stack)].path

IncludedPath == "sub.zone"
\* The values of record lines: w A 1.1.1.1 and the same without owner.
BuilderVals ==
    { [label |-> label, ttl |-> NoTtl, class_type |-> None,
       record_type |-> <<"A">>, record |-> <<Addr1>>] :
          label \in {<<"w">>, <<>>} }
BuilderOrigins == {<<"p", ".">>}
BuilderCall(op, arg) == [op |-> op, arg |-> arg]

InitBuilder ==
    /\ QueryIdle
    /\ ZonesIdle
    /\ IncludeIdle
    /\ PathIdle
    /\ ModulesIdle
    /\ ConfigIdle
    /\ zpText = <<>>
    /\ zpOrigin \in Origins
    /\ zpLines = <<>>
    /\ zpPos = 0
    /\ rb = NewRecordBuilder(ZonePath, zpOrigin)
    /\ rbCalls = <<>>
    /\ tk = NoTokenizer
    /\ zpResult = <<>>
    /\ zpState = "parsing"

CanCall == zpState = "parsing" /\ Len(rbCalls) < MaxBuilderCalls
builderFrame ==
    /\ UNCHANGED <<zpText, zpOrigin, zpLines, zpPos, tk>>
    /\ UNCHANGED <<qvars, zvars, ivars, bvars, mvars, cvars>>

\* rb.push_stack(path)
PushStack ==
    /\ CanCall
    /\ rb' = rb_push_stack(rb, IncludedPath)
    /\ rbCalls' = Append(rbCalls, BuilderCall("push_stack", <<>>))
    /\ UNCHANGED <<zpResult, zpState>>
    /\ builderFrame

\* rb.pop_stack(), of a frame that was pushed
PopStack ==
    /\ CanCall
    /\ Len(rb.stack) > 1
    /\ rb' = rb_pop_stack(rb)
    /\ rbCalls' = Append(rbCalls, BuilderCall("pop_stack", <<>>))
    /\ UNCHANGED <<zpResult, zpState>>
    /\ builderFrame

\* rb.update_origin(origin)
UpdateOrigin ==
    /\ CanCall
    /\ \E origin \in BuilderOrigins :
           /\ rb' = update_origin(rb, origin)
           /\ rbCalls' = Append(rbCalls, BuilderCall("update_origin", origin))
    /\ UNCHANGED <<zpResult, zpState>>
    /\ builderFrame

\* result.append(rb.build_name_record(val))
BuildNameRecord ==
    /\ CanCall
    /\ \E val \in BuilderVals :
           LET built == build_name_record(rb, val)
           IN  /\ rb' = built.b
               /\ rbCalls' = Append(rbCalls,
                                    BuilderCall("build_name_record", val.label))
               /\ zpResult' = IF built.raises = "none"
                              THEN Append(zpResult, built.rr) ELSE zpResult
               /\ zpState' = IF built.raises = "none" THEN "parsing"
                             ELSE built.raises
    /\ builderFrame

NextBuilder == PushStack \/ PopStack \/ UpdateOrigin \/ BuildNameRecord

SpecBuilder == InitBuilder /\ [][NextBuilder]_vars

\* No record was built since the last push_stack: the included file that
\* was entered has had no record line yet.
FreshlyIncluded ==
    \E i \in 1..Len(rbCalls) :
        /\ rbCalls[i].op = "push_stack"
        /\ \A j \in (i + 1)..Len(rbCalls) :
               rbCalls[j].op \notin {"build_name_record", "pop_stack"}

\* C29: a record line without owner that is the first of a freshly included
\* file is rejected: build_name_record raises, whatever owner the including
\* file has established.
C29_BlankOwnerAfterIncludeRejected ==
    [][(/\ FreshlyIncluded
        /\ Len(rbCalls') = Len(rbCalls) + 1
        /\ rbCalls'[Len(rbCalls')] = BuilderCall("build_name_record", <<>>))
           => /\ zpState' = "ValueError"
              /\ zpResult' = zpResult]_vars


(***************************************************************************)
(* Quoted strings and comments.                                            *)
(***************************************************************************)
QUOTE == "\""
QuoteAt(raw) == IndexFrom(raw, QUOTE, 1)
QuoteEnd(raw) == IndexFrom(raw, QUOTE, QuoteAt(raw) + 1)
\* The characters between the first quote of the line and the next one.
QuotedText(raw) == SubSeq(raw, QuoteAt(raw) + 1, QuoteEnd(raw) - 1)
\* The line has a quoted string that no comment precedes, closed on the
\* line, with a ; in it.
HasQuotedSemicolon(raw) ==
    /\ QuoteAt(raw) > 0
    /\ QuoteEnd(raw) > 0
    /\ ~HasChar(SubSeq(raw, 1, QuoteAt(raw)), ";")
    /\ HasChar(QuotedText(raw), ";")
\* The tokens zone_tokenizer yields for the line, the end of line left out.
TokensOfLine(raw) ==
    LET keep(t) == t # None
    IN  SelectSeq(zone_tokenizer(Append(raw, NEWLINE)), keep)

\* C30: a ; between the quotes of a quoted string does not start a comment:
\* the tokens of the line hold the text between the quotes, the ; and what
\* follows it up to the closing quote included.
C30_QuotedSemicolonKept ==
    LET lines == TextLines(zpText)
    IN  \A i \in 1..Len(lines) :
            HasQuotedSemicolon(lines[i]) =>
                \E k \in 1..Len(TokensOfLine(lines[i])) :
                    TokensOfLine(lines[i])[k] = QuotedText(lines[i])


(***************************************************************************)
(* Record equality across variants.                                        *)
(***************************************************************************)
\* C35: records of different variants, or with different ttls, never
\* compare equal: every record of the unique=False result is in the
\* unique=True result, as itself or as an earlier record with the same
\* variant, label, ttl, class, origin and value.
C35_VariantsAreDistinct ==
    (q.called /\ q.unique) =>
        \A i \in 1..Len(PlainResult) :
            \E k \in 1..Len(result) :
                RecAt(zones, result[k]) = RecAt(zones, PlainResult[i])

(***************************************************************************)
(* zone.py: zone_tokenizer stepped character by character over a text,     *)
(* generate_lines collecting its tokens into lines.                        *)
(***************************************************************************)
MaxChars == 4

BACKSLASH == "\\"
TokenChars == {"a", " ", NEWLINE, ";", QUOTE, "(", ")", BACKSLASH}
\* Texts with a continuation line and with parentheses in a quoted string.
LongTexts ==
    { <<"a", "(", "\n", " ", "a", ")">>, <<"\"", "(", "\"", "\n", "a">>, <<"\"", ")", "\"", "\n", "a", "\n">>, <<"a", " ", "\"", "(", "\"", " ", "a", "\n", "a">> }
TokenTexts ==
    UNION {[1..n -> TokenChars] : n \in 0..MaxChars} \cup LongTexts

\* The tokens are those of a text that is read to its end.
InitTokenizer ==
    /\ QueryIdle
    /\ ZonesIdle
    /\ IncludeIdle
    /\ PathIdle
    /\ ModulesIdle
    /\ ConfigIdle
    /\ zpText \in TokenTexts
    /\ zpOrigin = None
    /\ zpLines = <<>>
    /\ zpPos = 0
    /\ rb = NoBuilder
    /\ rbCalls = <<>>
    /\ tk = TokenizerStart
    /\ zpResult = <<>>
    /\ zpState = "tokenizing"

tokenizerFrame ==
    /\ UNCHANGED <<zpText, zpOrigin, rb, rbCalls, zpResult>>
    /\ UNCHANGED <<qvars, zvars, ivars, bvars, mvars, cvars>>

\* for c in generator: one round of the loop
TokenizeChar ==
    /\ zpState = "tokenizing"
    /\ zpPos < Len(zpText)
    /\ tk' = zone_tokenizer_step(tk, zpText[zpPos + 1])
    /\ zpPos' = zpPos + 1
    /\ UNCHANGED <<zpLines, zpState>>
    /\ tokenizerFrame

\* The generator is exhausted: what is collected is yielded with an end of
\* line, and generate_lines has made its lines of the tokens.
TokenizeEnd ==
    /\ zpState = "tokenizing"
    /\ zpPos = Len(zpText)
    /\ LET tokens == IF tk.collected # <<>>
                     THEN tk.out \o <<tk.collected, None>>
                     ELSE tk.out
       IN  /\ tk' = [tk EXCEPT !.out = tokens]
           /\ zpLines' = generate_lines_loop(tokens, 1, Len(tokens),
                             [collected |-> <<>>, out |-> <<>>]).out
    /\ zpState' = "done"
    /\ UNCHANGED zpPos
    /\ tokenizerFrame

NextTokenizer == TokenizeChar \/ TokenizeEnd

SpecTokenizer == InitTokenizer /\ [][NextTokenizer]_vars


(***************************************************************************)
(* Escapes.                                                                *)
(***************************************************************************)
\* The round is on the character c, right after a backslash that was read
\* outside a comment and set escape.
EscapedRound(c) ==
    /\ zpState = "tokenizing"
    /\ zpPos >= 1
    /\ zpPos < Len(zpText)
    /\ zpText[zpPos] = BACKSLASH
    /\ tk.escape
    /\ zpText[zpPos + 1] = c
    /\ zpPos' = zpPos + 1
\* The round appends c to the token collected and does nothing else but
\* end the escape.
TakenVerbatim(c) ==
    tk' = [tk EXCEPT !.collected = Append(@, c), !.escape = FALSE,
                     !.first = FALSE]

\* C33 as stated: whatever the character after a backslash is, it is added
\* to the current token without its special meaning, and the escape ends.
C33_EscapeAnyCharacter ==
    [][\A c \in TokenChars : EscapedRound(c) => TakenVerbatim(c)]_vars

\* C33: a character other than a newline that follows a backslash is added
\* to the current token without its special meaning, and the escape ends
\* with it; a newline after a backslash still ends the line.
C33_EscapeButNewline ==
    [][\A c \in TokenChars \ {NEWLINE} :
          EscapedRound(c) => TakenVerbatim(c)]_vars

\* An escaped special character has just been taken into the token.
C33_Witness ==
    /\ zpState = "tokenizing"
    /\ zpPos >= 2
    /\ zpText[zpPos - 1] = BACKSLASH
    /\ zpText[zpPos] \in {";", QUOTE, "(", " ", BACKSLASH}
    /\ tk.collected # <<>>
    /\ tk.collected[Len(tk.collected)] = zpText[zpPos]
    /\ ~tk.escape
    /\ ~tk.comment
    /\ ~tk.quoted
    /\ ~tk.multiline


(***************************************************************************)
(* The lines generate_lines delivers.                                      *)
(***************************************************************************)
\* C32: every line generate_lines yields holds a token that is not empty:
\* lines without token text are skipped.
C32_NoLineWithoutToken ==
    zpState = "done" =>
        \A k \in 1..Len(zpLines) :
            \E n \in 1..Len(zpLines[k]) : zpLines[k][n] # <<>>

\* The tokens of a line that are not the empty owner token.
TextTokens(line) ==
    LET text(t) == t # <<>>
    IN  SelectSeq(line, text)
\* The lines delivered that hold token text, each without empty tokens.
DeliveredText(lines) ==
    LET holds(line) == line # <<>>
    IN  SelectSeq([k \in 1..Len(lines) |-> TextTokens(lines[k])], holds)
\* The text is made of letters, blanks and newlines only.
IsPlainText(text) ==
    \A i \in 1..Len(text) : text[i] \in {"a", " ", NEWLINE}
\* The lines of a plain text that hold token text, the last line included
\* whether or not a newline ends it, each as its fields.
PlainLines(text) ==
    DeliveredText([k \in 1..Len(SplitAt(text, NEWLINE)) |->
                      Fields(SplitAt(text, NEWLINE)[k], <<>>)])

\* C34: every line of the text that holds a token is delivered exactly
\* once, the last one included when no newline ends the text.
C34_EveryLineDeliveredOnce ==
    (zpState = "done" /\ IsPlainText(zpText)) =>
        DeliveredText(zpLines) = PlainLines(zpText)


(***************************************************************************)
(* Continuation lines.                                                     *)
(***************************************************************************)
\* The positions of the text that are between a quote and the quote that
\* closes it on the same line.
InQuotes(text, i) ==
    \E lo \in 1..(i - 1) : \E hi \in (i + 1)..Len(text) :
        /\ text[lo] = QUOTE
        /\ text[hi] = QUOTE
        /\ \A j \in (lo + 1)..(hi - 1) : text[j] \notin {QUOTE, NEWLINE}
        /\ Cardinality({j \in 1..(lo - 1) : text[j] = QUOTE}) % 2 = 0
IsParen(c) == c \in {"(", ")"}
\* The text has no comment and no escape, and its quotes are closed on
\* their line.
IsParenText(text) ==
    /\ \A i \in 1..Len(text) : text[i] \notin {";", BACKSLASH}
    /\ \A i \in 1..Len(text) :
           text[i] = QUOTE =>
               \/ InQuotes(text, i + 1) /\ text[i + 1] # QUOTE
               \/ InQuotes(text, i - 1) /\ text[i - 1] # QUOTE
\* The text with the letter a in the place of every parenthesis in quotes.
WithoutQuotedParens(text) ==
    [i \in 1..Len(text) |->
        IF IsParen(text[i]) /\ InQuotes(text, i) THEN "a" ELSE text[i]]
\* The number of characters of the tokens of some lines.
RECURSIVE TokenLength(_)
TokenLength(lines) ==
    IF lines = <<>> THEN 0
    ELSE (IF Head(lines) = <<>> THEN 0
          ELSE Len(Head(Head(lines))) + TokenLength(<<Tail(Head(lines))>>))
             + TokenLength(Tail(lines))

\* C31: a parenthesis in a quoted string is token text and leaves the
\* continuation state alone, so the lines are those of the text with a
\* letter in its place; and a continuation line gets no empty owner token:
\* an empty token is only ever the first of its line.
C31_ContinuationOutsideQuotesOnly ==
    (zpState = "done" /\ IsParenText(zpText)) =>
        /\ Len(zpLines) = Len(generate_lines(WithoutQuotedParens(zpText)))
        /\ TokenLength(zpLines)
               = TokenLength(generate_lines(WithoutQuotedParens(zpText)))
        /\ \A k \in 1..Len(zpLines) : \A n \in 2..Len(zpLines[k]) :
               zpLines[k][n] # <<>>

=============================================================================
